---------------------------- MODULE Spec2Model ----------------------------
(***************************************************************************)
(* A model of tops/sdss3/design/iop/tclparse.py: the escaped-newline       *)
(* normalisation of File, the PLY lexer rules of LexicalAnalyzer, the      *)
(* recursive-descent Parser classes (as an explicit stack of constructors  *)
(* in progress), embedded re-parsing, and the Command.dictionary index.    *)
(*                                                                         *)
(* Text is a sequence of one-character strings.  Offsets are the 0-based   *)
(* offsets of the Python code; the character at offset p of s is s[p+1].   *)
(***************************************************************************)
EXTENDS Integers, Sequences, FiniteSets, TLC

(***************************************************************************)
(* Bounds of the model.                                                    *)
(***************************************************************************)
\* longest file, in characters, of the character-level runs
MaxLen == 4
\* longest file, in fragments, of the fragment-level runs
MaxFrags == 3
\* number of files of one run of main()
MaxFiles == 2

\* number of pieces of the data a TelnetSession receives at once
MaxPieces == 2

\* number of writes of a TelnetSession
MaxSent == 3

\* number of lines of the response to a command
MaxLines == 0

\* length of the texts given to MessageTests.check
MaxText == 3

\* number of commands that wait in the queue of a TelnetSession
MaxQueued == 1

\* FeedBuffer: the largest maxdepth and the number of calls of add
MaxDepth == 2

MaxAdds == 5

BS == "\\"
NL == "\n"
SP == " "
TAB == "\t"
DQ == "\""

\* the value None of the Python code
None == [kind |-> "None"]

(***************************************************************************)
(* Python slices s[a:b] and s[a:] on 0-based offsets.                      *)
(***************************************************************************)
Slice(s, a, b) == SubSeq(s, a + 1, IF b < Len(s) THEN b ELSE Len(s))

SliceFrom(s, a) == SubSeq(s, a + 1, Len(s))

(***************************************************************************)
(* LexicalAnalyzer                                                         *)
(***************************************************************************)
\* literals = '{}#$"\[\];' : the two backslashes stay in the Python string
literals == {"{", "}", "#", "$", DQ, BS, "[", "]", ";"}

\* t_WS = r'[ \t]+' : the offset after the longest match starting at p
RECURSIVE t_WS(_, _)
t_WS(s, p) ==
    IF p < Len(s) /\ s[p + 1] \in {SP, TAB} THEN t_WS(s, p + 1) ELSE p

\* the tail [ \t\n]* of t_EOL
RECURSIVE EOLTail(_, _)
EOLTail(s, p) ==
    IF p < Len(s) /\ s[p + 1] \in {SP, TAB, NL} THEN EOLTail(s, p + 1) ELSE p

\* a t_EOL that matches one newline only
t_EOL_OneNewline(s, p) ==
    IF p < Len(s) /\ s[p + 1] = NL THEN p + 1 ELSE p

\* t_EOL = r'\n[ \t\n]*'
t_EOL(s, p) ==
    IF p < Len(s) /\ s[p + 1] = NL THEN EOLTail(s, p + 1) ELSE p

\* t_WORD = r'([^%s\\ \t\n]|(\\.))+' % (literals)
RECURSIVE t_WORD(_, _)
t_WORD(s, p) ==
    IF p >= Len(s) THEN p
    ELSE IF s[p + 1] \notin (literals \cup {BS, SP, TAB, NL}) THEN t_WORD(s, p + 1)
    ELSE IF s[p + 1] = BS /\ p + 1 < Len(s) /\ s[p + 2] # NL THEN t_WORD(s, p + 2)
    ELSE p

LexToken(type, value, pos) ==
    [kind |-> "tok", type |-> type, value |-> value, lexpos |-> pos, lineno |-> 1]

\* lexer.token(): the token at lexpos p of the input s, None at the end of
\* the input, and t_error's FatalParseError when nothing matches
token(s, p) ==
    IF p >= Len(s) THEN None
    ELSE IF t_WORD(s, p) > p THEN LexToken("WORD", Slice(s, p, t_WORD(s, p)), p)
    ELSE IF t_EOL(s, p) > p THEN LexToken("EOL", Slice(s, p, t_EOL(s, p)), p)
    ELSE IF t_WS(s, p) > p THEN LexToken("WS", Slice(s, p, t_WS(s, p)), p)
    ELSE IF s[p + 1] \in literals THEN LexToken(s[p + 1], <<s[p + 1]>>, p)
    ELSE [kind |-> "FatalParseError", msg |-> "Illegal character"]

(***************************************************************************)
(* File.__init__                                                           *)
(***************************************************************************)
\* the length of the first line of s, its newline included
RECURSIVE LineLen(_, _)
LineLen(s, n) ==
    IF n >= Len(s) THEN Len(s)
    ELSE IF s[n + 1] = NL THEN n + 1
    ELSE LineLen(s, n + 1)

\* the loop 'for line in open(name)' over the rest of the file
RECURSIVE ReadLines(_, _)
ReadLines(rest, f) ==
    IF rest = <<>> THEN f
    ELSE LET n == LineLen(rest, 0)
             line == SubSeq(rest, 1, n)
             offset == f.offset + n
             escaped == n >= 2 /\ line[n - 1] = BS /\ line[n] = NL
         IN  ReadLines(SliceFrom(rest, n),
                 [data |-> IF escaped
                              THEN f.data \o SubSeq(line, 1, n - 2) \o <<SP, SP>>
                              ELSE f.data \o line,
                  offsets |-> Append(f.offsets, f.offset),
                  escapes |-> IF escaped THEN Append(f.escapes, offset - 2)
                                         ELSE f.escapes,
                  offset |-> offset])

\* a File whose data keeps the escaped newlines
FileInit_KeepsEscapes(bytes) ==
    [ReadLines(bytes, [data |-> <<>>, offsets |-> <<>>, escapes |-> <<>>, offset |-> 0])
        EXCEPT !.data = bytes]

FileInit(bytes) ==
    ReadLines(bytes, [data |-> <<>>, offsets |-> <<>>, escapes |-> <<>>, offset |-> 0])

(***************************************************************************)
(* File.lineno and File.next_token                                         *)
(***************************************************************************)
\* the loop 'while line < self.nlines and offset >= self.offsets[line]'
RECURSIVE ScanLines(_, _, _)
ScanLines(offs, offset, line) ==
    IF line < Len(offs) /\ offset >= offs[line + 1]
       THEN ScanLines(offs, offset, line + 1)
       ELSE line

\* a lineno that goes on from the last line even after a step backwards
lineno_NeverRestarts(offs, last, offset, lexerpos) ==
    LET off == IF offset = <<>> \/ offset[1] = 0 THEN lexerpos ELSE offset[1]
    IN  IF last >= Len(offs) THEN [kind |-> "IndexError"]
        ELSE LET line == ScanLines(offs, off, last)
             IN  [kind |-> "ok", line |-> line, last_line |-> line - 1]

\* File.lineno(offset), the argument given as <<offset>> and None as <<>>:
\* 'if not offset' takes None and 0 alike
lineno(offs, last, offset, lexerpos) ==
    LET off == IF offset = <<>> \/ offset[1] = 0 THEN lexerpos ELSE offset[1]
    IN  IF last >= Len(offs) THEN [kind |-> "IndexError"]
        ELSE LET line == ScanLines(offs, off, IF off >= offs[last + 1] THEN last ELSE 0)
             IN  [kind |-> "ok", line |-> line, last_line |-> line - 1]

\* the loop 'for offset in self.escapes' of next_token, from the i-th record
RECURSIVE Restore(_, _, _, _)
Restore(escs, i, start, value) ==
    IF i > Len(escs) THEN value
    ELSE IF escs[i] < start \/ escs[i] >= start + Len(value)
            THEN Restore(escs, i + 1, start, value)
    ELSE LET pos == escs[i] - start
         IN  Slice(value, 0, pos) \o <<BS, NL>> \o SliceFrom(value, pos + 2)

(***************************************************************************)
(* The state.  file is the File object being parsed, lexpos the position   *)
(* of the shared PLY lexer, stack the Parser constructors in progress      *)
(* (innermost last), dictionary is Command.dictionary and tag the tag      *)
(* attribute of the tokens of the file, by token offset; debug is the      *)
(* debug level of the run (opts.debug).  parsed_files is the list of main():*)
(* of each File it keeps the title, whether it has a script, and the tags  *)
(* that the tokens of the script carry.  index is the last index that      *)
(* Command.build_index returned, with the title it was asked for, and      *)
(* written the number of files that the last loop of main() has written;   *)
(* doc is the content that File.export put in the page of the file.        *)
(* checked is the last text MessageTests.check was given, with its result; *)
(* session is the TelnetSession and received the last data it was given,   *)
(* empty before the first.  asked is the last call of File.lineno made on  *)
(* its own: its offset and result, and those of the call before it.        *)
(* before_embed keeps, for each Parser.embed in progress, outermost first, *)
(* the dictionary and the tags as they were when it was called.            *)
(***************************************************************************)
VARIABLES file, last_line, script, lexpos, stack, dictionary, tag,
          pc, exc, returned, nfiles, debug, parsed_files, index, written, doc,
          checked, session, received, asked, before_embed,
          feed, added, registry, result

vars == <<file, last_line, script, lexpos, stack, dictionary, tag,
          pc, exc, returned, nfiles, debug, parsed_files, index, written, doc,
          checked, session, received, asked, before_embed,
                   feed, added, registry, result>>

(***************************************************************************)
(* Parser: class attributes, token_stream, reconstruct                     *)
(***************************************************************************)
\* the prefix class attribute of each Parser subclass
prefix(name) ==
    CASE name = "Comment" -> "#"
      [] name = "Quoted" -> DQ
      [] name = "Group" -> "{"
      [] name = "Substitution" -> "["
      [] name = "Variable" -> "$"
      [] OTHER -> ""

\* the suffix class attribute of each Parser subclass
suffix(name) ==
    CASE name = "Quoted" -> DQ
      [] name = "Group" -> "}"
      [] name = "Substitution" -> "]"
      [] OTHER -> ""

isLexToken(x) == x.kind = "tok"

isParser(x) == x.kind = "node"

\* Parser.token_stream over the children toks; ok is FALSE when a child
\* without a prefix_token attribute is reached (AttributeError)
RECURSIVE token_stream(_)
token_stream(toks) ==
    IF toks = <<>> THEN [ok |-> TRUE, stream |-> <<>>]
    ELSE LET tok == Head(toks)
             rest == token_stream(Tail(toks))
         IN  IF isLexToken(tok)
                THEN [ok |-> rest.ok, stream |-> <<tok>> \o rest.stream]
             ELSE IF "prefix_token" \notin DOMAIN tok
                THEN [ok |-> FALSE, stream |-> <<>>]
             ELSE LET inner == token_stream(tok.tokens)
                  IN  [ok |-> inner.ok /\ rest.ok,
                       stream |-> (IF tok.prefix_token # None
                                      THEN <<tok.prefix_token>> ELSE <<>>)
                                  \o inner.stream
                                  \o (IF tok.suffix_token # None
                                         THEN <<tok.suffix_token>> ELSE <<>>)
                                  \o rest.stream]

\* the text of a class attribute ('' or one character) as a sequence
Chars(str) == IF str = "" THEN <<>> ELSE <<str>>

\* Parser.reconstruct of a node, and of a list of children
RECURSIVE reconstruct(_)
RECURSIVE reconstructAll(_)
reconstruct(node) ==
    Chars(prefix(node.name)) \o reconstructAll(node.tokens) \o Chars(suffix(node.name))

reconstructAll(toks) ==
    IF toks = <<>> THEN <<>>
    ELSE (IF isParser(Head(toks)) THEN reconstruct(Head(toks)) ELSE Head(toks).value)
         \o reconstructAll(Tail(toks))

(***************************************************************************)
(* Parser.export: the elements put in a container.  A text is a record of  *)
(* kind "text", a Span a record with its className, id and children.       *)
(***************************************************************************)
Text(value) == [kind |-> "text", value |-> value]

Span(children, id, className) ==
    [kind |-> "Span", className |-> className, id |-> id, children |-> children]

\* a token is put in the page as its text, tagged or not
exportToken_Untagged(tok, tags) == Text(tok.value)

\* lines 258-263: a LexToken child, tags the tags of the tokens by offset
exportToken(tok, tags) ==
    IF tok.lexpos \in DOMAIN tags
       THEN Span(<<Text(tok.value)>>, tags[tok.lexpos], "tagged")
       ELSE Text(tok.value)

\* Parser.export of a node: the Span appended to the container
RECURSIVE export(_, _)
RECURSIVE exportAll(_, _)
export(node, tags) ==
    Span((IF prefix(node.name) # "" THEN <<Text(<<prefix(node.name)>>)>> ELSE <<>>)
            \o exportAll(node.tokens, tags)
            \o (IF suffix(node.name) # "" THEN <<Text(<<suffix(node.name)>>)>> ELSE <<>>),
         <<>>, node.name)

exportAll(toks, tags) ==
    IF toks = <<>> THEN <<>>
    ELSE <<IF isParser(Head(toks)) THEN export(Head(toks), tags)
                                   ELSE exportToken(Head(toks), tags)>>
         \o exportAll(Tail(toks), tags)

(***************************************************************************)
(* The constructors in progress                                            *)
(***************************************************************************)
\* a Parser instance whose parse() is running; ptok is the prefix token
\* captured by the append that created it
Frame(name, ptok, depth) ==
    [name |-> name, tokens |-> <<>>, last_token |-> None, ptok |-> ptok,
     depth |-> depth, source |-> <<>>, index |-> 0, brace |-> FALSE]

Top(st) == st.stack[Len(st.stack)]

SetTop(st, f) == [st EXCEPT !.stack[Len(st.stack)] = f]

Pop(st) == [st EXCEPT !.stack = SubSeq(st.stack, 1, Len(st.stack) - 1)]

\* the tokenizer of the innermost instance: the index in the stack of the
\* EmbeddedScript that replays its source, 0 for the File
RECURSIVE Tokenizer(_, _)
Tokenizer(stk, i) ==
    IF i = 0 THEN 0
    ELSE IF stk[i].name = "EmbeddedScript" THEN i
    ELSE Tokenizer(stk, i - 1)

\* an exception no handler of the program catches: the run ends
Crash(st, what) ==
    [st EXCEPT !.pc = "crashed", !.tok = [kind |-> "raised"],
               !.exc = [kind |-> what, msg |-> "", caught |-> "no"]]

\* Parser.__init__, lines 181-182 and 184-185: at debug > 1 the instance on
\* top of the stack prints tokenizer.lineno(); the lineno of a File moves
\* last_line and indexes offsets, that of an EmbeddedScript changes nothing
tokenizer_lineno(st) ==
    IF st.debug <= 1 \/ st.pc # "parsing" THEN st
    ELSE IF Tokenizer(st.stack, Len(st.stack)) # 0 THEN st
    ELSE LET ln == lineno(file.offsets, st.last_line, <<>>, st.lexpos)
         IN  IF ln.kind # "ok" THEN Crash(st, ln.kind)
             ELSE [st EXCEPT !.last_line = ln.last_line]

\* Parser.append(type, *type_args), up to the parse() of the new instance
Push(st, name, depth) ==
    IF prefix(name) = ""
       THEN tokenizer_lineno([st EXCEPT !.stack = Append(@, Frame(name, None, depth))])
    ELSE IF Top(st).last_token = None THEN Crash(st, "AttributeError")
    ELSE IF Top(st).last_token.value # <<prefix(name)>> THEN Crash(st, "AssertionError")
    ELSE tokenizer_lineno(
             [st EXCEPT !.stack = Append(@, Frame(name, Top(st).last_token, depth))])

\* an append that records nothing
AppendToken_Lost(st, tok) == st

\* Parser.append(token) for a LexToken
AppendToken(st, tok) == SetTop(st, [Top(st) EXCEPT !.tokens = Append(@, tok)])

(***************************************************************************)
(* Command.parse, lines 414-461: the proc registration                     *)
(***************************************************************************)
DigitChars == <<"0", "1", "2", "3", "4", "5", "6", "7", "8", "9">>

\* "%d" % n for n >= 0
RECURSIVE Decimal(_)
Decimal(n) ==
    IF n < 10 THEN <<DigitChars[n + 1]>>
    ELSE Decimal(n \div 10) \o <<DigitChars[(n % 10) + 1]>>

\* the words of a command: its children without white space, ';' and Comments
Words(toks) ==
    SelectSeq(toks, LAMBDA t : ~ \/ (isLexToken(t) /\ t.type \in {"WS", "EOL", ";"})
                                 \/ (isParser(t) /\ t.name = "Comment"))

isWORD(x) == isLexToken(x) /\ x.type = "WORD"

\* a duplicate replaces the list of titles instead of extending it
Record_Overwrite(dict, proc_name, title) ==
    [n \in DOMAIN dict \cup {proc_name} |-> IF n = proc_name THEN <<title>> ELSE dict[n]]

\* the dictionary after proc_name is recorded for the file title
Record(dict, proc_name, title) ==
    [n \in DOMAIN dict \cup {proc_name} |->
        IF n = proc_name
           THEN (IF proc_name \in DOMAIN dict THEN Append(dict[n], title) ELSE <<title>>)
           ELSE dict[n]]

\* the tag is built from the count before the append
TagFor_CountBefore(dict, proc_name) ==
    IF proc_name \in DOMAIN dict
       THEN proc_name \o <<"_">> \o Decimal(Len(dict[proc_name]))
       ELSE proc_name

\* the tag given to the name token of a proc that dict already holds or not
TagFor(dict, proc_name) ==
    IF proc_name \in DOMAIN dict
       THEN proc_name \o <<"_">> \o Decimal(Len(dict[proc_name]) + 1)
       ELSE proc_name

\* a proc command of four words or more is recorded
Register_AtLeastFour(st) ==
    LET words == Words(Top(st).tokens)
    IN  IF Len(words) = 0 THEN st
        ELSE IF ~ isWORD(words[1]) THEN st
        ELSE IF words[1].value # <<"p", "r", "o", "c">> THEN st
        ELSE IF Len(words) < 4 THEN st
        ELSE IF ~ isWORD(words[2]) THEN st
        ELSE [st EXCEPT
                !.dictionary = Record(st.dictionary, words[2].value, file.title),
                !.tag = [q \in DOMAIN st.tag \cup {words[2].lexpos} |->
                            IF q = words[2].lexpos
                               THEN TagFor(st.dictionary, words[2].value)
                               ELSE st.tag[q]]]

\* the end of Command.parse for the Command on top of the stack
Register(st) ==
    LET words == Words(Top(st).tokens)
    IN  IF Len(words) = 0 THEN st
        ELSE IF ~ isWORD(words[1]) THEN st
        ELSE IF words[1].value # <<"p", "r", "o", "c">> THEN st
        ELSE IF Len(words) # 4 THEN st
        ELSE IF ~ isWORD(words[2]) THEN st
        ELSE LET proc_name == words[2].value
                 pos == words[2].lexpos
             IN  [st EXCEPT
                    !.dictionary = Record(st.dictionary, proc_name, file.title),
                    !.tag = [q \in DOMAIN st.tag \cup {pos} |->
                                IF q = pos THEN TagFor(st.dictionary, proc_name)
                                           ELSE st.tag[q]]]

(***************************************************************************)
(* Command.build_index                                                     *)
(***************************************************************************)
\* the characters of the names of the model, in the order of their codes
CharCodes ==
    <<"0", "1", "2", "3", "4", "5", "6", "7", "8", "9",
      "F", "G", "_", "a", "c", "f", "g", "o", "p", "r">>

ord(c) == CHOOSE i \in 1..Len(CharCodes) : CharCodes[i] = c

\* str.lower and str.upper on one character
lower(c) == CASE c = "F" -> "f" [] c = "G" -> "g" [] OTHER -> c

upper(c) == CASE c \in {"f", "F"} -> "F"
              [] c \in {"g", "G"} -> "G"
              [] c = "a" -> "A"
              [] c = "c" -> "C"
              [] c = "o" -> "O"
              [] c = "p" -> "P"
              [] c = "r" -> "R"
              [] OTHER -> c

\* key=str.lower
lowered(name) == [i \in 1..Len(name) |-> lower(name[i])]

\* a < b for two strings, as Python compares them
RECURSIVE StrLess(_, _)
StrLess(a, b) ==
    IF b = <<>> THEN FALSE
    ELSE IF a = <<>> THEN TRUE
    ELSE IF Head(a) # Head(b) THEN ord(Head(a)) < ord(Head(b))
    ELSE StrLess(Tail(a), Tail(b))

\* sorted(Command.dictionary, key=str.lower); names with the same key keep
\* the order of the dictionary, which the model leaves open
RECURSIVE sorted(_)
sorted(names) ==
    IF names = {} THEN <<>>
    ELSE LET first == CHOOSE n \in names :
                          \A m \in names : ~ StrLess(lowered(m), lowered(n))
         IN  <<first>> \o sorted(names \ {first})

\* f.replace('.tcl','.html')
RECURSIVE replace(_)
replace(f) ==
    IF Len(f) < 4 THEN f
    ELSE IF SubSeq(f, 1, 4) = <<".", "t", "c", "l">>
       THEN <<".", "h", "t", "m", "l">> \o replace(SubSeq(f, 5, Len(f)))
    ELSE <<Head(f)>> \o replace(Tail(f))

\* the links of proc, lines 492-499, from the k-th title on (k from 0)
RECURSIVE links(_, _, _)
links(proc, titles, k) ==
    IF k >= Len(titles) THEN <<>>
    ELSE LET target == replace(titles[k + 1])
             link == IF k = 0
                        THEN [kind |-> "A", proc |-> proc, k |-> k, text |-> proc,
                              href |-> target \o <<"#">> \o proc]
                        ELSE [kind |-> "A", proc |-> proc, k |-> k,
                              text |-> <<"[">> \o Decimal(k + 1) \o <<"]">>,
                              href |-> target \o <<"#">> \o proc
                                         \o <<"_">> \o Decimal(k + 1)]
         IN  <<link>> \o links(proc, titles, k + 1)

\* a name is listed only for the file of its first definition
listed_FirstTitle(titles, title) == title = <<>> \/ titles[1] = title

\* line 486: if not title or title in titles
listed(titles, title) ==
    title = <<>> \/ \E k \in 1..Len(titles) : titles[k] = title

\* the loop of build_index over the sorted names procs
RECURSIVE index_loop(_, _, _, _)
index_loop(dict, procs, title, first_letter) ==
    IF procs = <<>> THEN <<>>
    ELSE LET proc == Head(procs)
             letter == upper(proc[1])
         IN  IF ~ listed(dict[proc], title)
                THEN index_loop(dict, Tail(procs), title, first_letter)
             ELSE (IF letter # first_letter
                      THEN <<[kind |-> "letter", letter |-> letter]>> ELSE <<>>)
                  \o links(proc, dict[proc], 0)
                  \o index_loop(dict, Tail(procs), title, letter)

\* Command.build_index(title), the title None or '' given as <<>>
build_index(dict, title) ==
    [title |-> title, items |-> index_loop(dict, sorted(DOMAIN dict), title, "?")]

(***************************************************************************)
(* Returning from a constructor, raising FatalParseError                   *)
(***************************************************************************)
\* the parsed object that a finished constructor leaves
Parsed(f) ==
    IF f.name \in {"Script", "EmbeddedScript"}
       THEN [kind |-> "node", name |-> f.name, tokens |-> f.tokens]
    ELSE [kind |-> "node", name |-> f.name, tokens |-> f.tokens, depth |-> f.depth,
          prefix_token |-> f.ptok,
          suffix_token |-> IF suffix(f.name) # "" THEN f.last_token ELSE None]

\* parse() of the instance on top of the stack returns: File.parse stores the
\* Script; Parser.embed replaces the children of the Substitution below, whose
\* own parse() then returns; Parser.append checks and records the suffix token
\* and appends the instance to its parent, which goes on: a Script constructs
\* its next Command, a Command ends after a Comment
\* the embedded script is appended to the children instead of replacing them
Embedded_Appended(sub, embedded) == [sub EXCEPT !.tokens = Append(@, embedded)]

\* Parser.embed, line 304: self.tokens[:] = [embedded]
Embedded(sub, embedded) == [sub EXCEPT !.tokens = <<embedded>>]

RECURSIVE Return(_)
RECURSIVE CommandEnd(_)
Return(st0) ==
    LET st == tokenizer_lineno(st0)
        top == Top(st)
        below == Pop(st)
    IN  IF st.pc # "parsing" THEN st
        ELSE IF top.name = "Script"
           THEN [below EXCEPT !.script = Parsed(top), !.pc = "parsed"]
        ELSE IF top.name = "EmbeddedScript"
           THEN Return(SetTop(below, Embedded(Top(below), Parsed(top))))
        ELSE IF suffix(top.name) # "" /\ top.last_token = None
           THEN Crash(st, "AttributeError")
        ELSE IF suffix(top.name) # "" /\ top.last_token.value # <<suffix(top.name)>>
           THEN Crash(st, "AssertionError")
        ELSE LET st1 == AppendToken(below, Parsed(top))
             IN  IF Top(below).name \in {"Script", "EmbeddedScript"}
                    THEN Push(st1, "Command", 0)
                 ELSE IF Top(below).name = "Command" /\ top.name = "Comment"
                    THEN CommandEnd(st1)
                 ELSE st1

CommandEnd(st) == Return(Register(st))

\* the except clause empties the children of the Substitution
Swallow_Cleared(stk, i) ==
    Append(SubSeq(stk, 1, i - 2), [stk[i - 1] EXCEPT !.tokens = <<>>])

\* Parser.embed, lines 305-307: the except clause leaves self.tokens alone;
\* i is the place of the EmbeddedScript in the stack
Swallow(stk, i) == SubSeq(stk, 1, i - 1)

\* raise FatalParseError(msg): Parser.embed of the Substitution under the
\* innermost EmbeddedScript swallows it and that Substitution's parse()
\* returns; without an EmbeddedScript File.parse reports it
Fatal(st, msg) ==
    LET i == Tokenizer(st.stack, Len(st.stack))
    IN  IF i = 0
           THEN [st EXCEPT !.stack = <<>>, !.pc = "fatal",
                    !.exc = [kind |-> "FatalParseError", msg |-> msg, caught |-> "parse"],
                    !.tok = [kind |-> "raised"]]
        ELSE Return([st EXCEPT !.stack = Swallow(st.stack, i),
                    !.exc = [kind |-> "FatalParseError", msg |-> msg, caught |-> "embed"],
                    !.tok = [kind |-> "raised"]])

\* the text of an error: what, the construct named, the line number if any
Msg(what, name, line) == [what |-> what, name |-> name, line |-> line]

(***************************************************************************)
(* File.next_token, EmbeddedScript.next_token, Parser.next                 *)
(***************************************************************************)
EndOfTokens == [kind |-> "EndOfTokens"]

\* an EmbeddedScript whose next_token leaves its index where it was
next_IndexKept(st, end_is_fatal) ==
    LET i == Tokenizer(st.stack, Len(st.stack))
        n == Len(st.stack)
        eof == IF end_is_fatal
                  THEN Fatal(st, Msg("unexpected EOF", Top(st).name, <<>>))
                  ELSE [st EXCEPT !.tok = EndOfTokens]
    IN  IF i = 0
           THEN LET t == token(file.data, st.lexpos)
                IN  IF t = None THEN eof
                    ELSE IF t.kind = "FatalParseError"
                       THEN Fatal(st, Msg(t.msg, "", <<2>>))
                    ELSE LET pos == st.lexpos + Len(t.value)
                             ln == lineno(file.offsets, st.last_line, <<t.lexpos>>, pos)
                         IN  IF ln.kind # "ok" THEN Crash(st, ln.kind)
                             ELSE LET tk == [t EXCEPT
                                        !.lineno = ln.line,
                                        !.value = Restore(file.escapes, 1, t.lexpos, t.value)]
                                  IN  [st EXCEPT !.stack[n].last_token = tk,
                                                 !.lexpos = pos,
                                                 !.last_line = ln.last_line,
                                                 !.returned = tk,
                                                 !.tok = tk]
        ELSE IF st.stack[i].index < Len(st.stack[i].source)
           THEN LET tk == st.stack[i].source[st.stack[i].index + 1]
                IN  [st EXCEPT !.stack[n].last_token = tk,
                               !.tok = tk]
        ELSE eof

\* Parser.next(end_is_fatal) called by the instance on top of the stack;
\* the token read, or what was raised, is left in st.tok
next(st, end_is_fatal) ==
    LET i == Tokenizer(st.stack, Len(st.stack))
        n == Len(st.stack)
        eof == IF end_is_fatal
                  THEN Fatal(st, Msg("unexpected EOF", Top(st).name, <<>>))
                  ELSE [st EXCEPT !.tok = EndOfTokens]
    IN  IF i = 0
           THEN LET t == token(file.data, st.lexpos)
                IN  IF t = None THEN eof
                    ELSE IF t.kind = "FatalParseError"
                       THEN Fatal(st, Msg(t.msg, "", <<2>>))
                    ELSE LET pos == st.lexpos + Len(t.value)
                             ln == lineno(file.offsets, st.last_line, <<t.lexpos>>, pos)
                         IN  IF ln.kind # "ok" THEN Crash(st, ln.kind)
                             ELSE LET tk == [t EXCEPT
                                        !.lineno = ln.line,
                                        !.value = Restore(file.escapes, 1, t.lexpos, t.value)]
                                  IN  [st EXCEPT !.stack[n].last_token = tk,
                                                 !.lexpos = pos,
                                                 !.last_line = ln.last_line,
                                                 !.returned = tk,
                                                 !.tok = tk]
        ELSE IF st.stack[i].index < Len(st.stack[i].source)
           THEN LET tk == st.stack[i].source[st.stack[i].index + 1]
                IN  [st EXCEPT !.stack[i].index = @ + 1,
                               !.stack[n].last_token = tk,
                               !.tok = tk]
        ELSE eof

(***************************************************************************)
(* The parse() methods: what one pass of the loop does with the token      *)
(* that Parser.next left in st.tok                                         *)
(***************************************************************************)
\* the flag set only when nothing precedes the '#'
is_comment_FirstOnly(toks) == toks = <<>>

\* the flag is_comment of Command.parse: only white space precedes the '#'
is_comment(toks) ==
    \A k \in 1..Len(toks) : isLexToken(toks[k]) /\ toks[k].type \in {"WS", "EOL"}

\* Parser.embed, up to the first read of the embedded Script's first Command
embed(st) ==
    LET ts == token_stream(Top(st).tokens)
    IN  IF ~ ts.ok THEN Crash(st, "AttributeError")
        ELSE Push(tokenizer_lineno([st EXCEPT !.stack = Append(@,
                      [Frame("EmbeddedScript", None, 0) EXCEPT !.source = ts.stream])]),
                  "Command", 0)

\* a Command that reads on after a ';'
Command_parse_SemicolonKept(st) ==
    LET t == st.tok
    IN  IF t.kind = "raised" THEN st
        ELSE IF t.kind = "EndOfTokens"
           THEN IF Len(Top(st).tokens) > 0 THEN CommandEnd(st) ELSE Return(Pop(st))
        ELSE IF t.type = "EOL" THEN CommandEnd(AppendToken(st, t))
        ELSE IF t.type = "#"
           THEN IF is_comment(Top(st).tokens) THEN Push(st, "Comment", 0)
                                              ELSE AppendToken(st, t)
        ELSE IF t.type = "$" THEN Push(st, "Variable", 0)
        ELSE IF t.type = "[" THEN Push(st, "Substitution", 0)
        ELSE IF t.type = DQ THEN Push(st, "Quoted", 0)
        ELSE IF t.type = "{" THEN Push(st, "Group", 1)
        ELSE IF t.type = "}"
           THEN Fatal(st, Msg("unexpected }", "Command", <<t.lineno>>))
        ELSE IF t.type = "]"
           THEN Fatal(st, Msg("unexpected ]", "Command", <<t.lineno>>))
        ELSE AppendToken(st, t)

Command_parse(st) ==
    LET t == st.tok
    IN  IF t.kind = "raised" THEN st
        ELSE IF t.kind = "EndOfTokens"
           THEN IF Len(Top(st).tokens) > 0 THEN CommandEnd(st) ELSE Return(Pop(st))
        ELSE IF t.type \in {"EOL", ";"} THEN CommandEnd(AppendToken(st, t))
        ELSE IF t.type = "#"
           THEN IF is_comment(Top(st).tokens) THEN Push(st, "Comment", 0)
                                              ELSE AppendToken(st, t)
        ELSE IF t.type = "$" THEN Push(st, "Variable", 0)
        ELSE IF t.type = "[" THEN Push(st, "Substitution", 0)
        ELSE IF t.type = DQ THEN Push(st, "Quoted", 0)
        ELSE IF t.type = "{" THEN Push(st, "Group", 1)
        ELSE IF t.type = "}"
           THEN Fatal(st, Msg("unexpected }", "Command", <<t.lineno>>))
        ELSE IF t.type = "]"
           THEN Fatal(st, Msg("unexpected ]", "Command", <<t.lineno>>))
        ELSE AppendToken(st, t)

Comment_parse(st) ==
    LET t == st.tok
    IN  IF t.kind = "raised" THEN st
        ELSE IF t.type = "EOL" THEN Return(AppendToken(st, t))
        ELSE AppendToken(st, t)

\* a Quoted that keeps a ']' as a plain token
Quoted_parse_KeepsBracket(st) ==
    LET t == st.tok
    IN  IF t.kind = "raised" THEN st
        ELSE IF t.type = "$" THEN Push(st, "Variable", 0)
        ELSE IF t.type = "[" THEN Push(st, "Substitution", 0)
        ELSE IF t.type = "{" THEN Push(st, "Group", 1)
        ELSE IF t.type = "}"
           THEN Fatal(st, Msg("unexpected }", "Quoted", <<t.lineno>>))
        ELSE IF t.type = DQ THEN Return(st)
        ELSE AppendToken(st, t)

Quoted_parse(st) ==
    LET t == st.tok
    IN  IF t.kind = "raised" THEN st
        ELSE IF t.type = "$" THEN Push(st, "Variable", 0)
        ELSE IF t.type = "[" THEN Push(st, "Substitution", 0)
        ELSE IF t.type = "{" THEN Push(st, "Group", 1)
        ELSE IF t.type = "}"
           THEN Fatal(st, Msg("unexpected }", "Quoted", <<t.lineno>>))
        ELSE IF t.type = "]"
           THEN Fatal(st, Msg("unexpected ]", "Quoted", <<t.lineno>>))
        ELSE IF t.type = DQ THEN Return(st)
        ELSE AppendToken(st, t)

\* a Group that expands the variables inside it
Group_parse_Expands(st) ==
    LET t == st.tok
    IN  IF t.kind = "raised" THEN st
        ELSE IF t.type = "{" THEN Push(st, "Group", Top(st).depth + 1)
        ELSE IF t.type = "}" THEN Return(st)
        ELSE IF t.type = "$" THEN Push(st, "Variable", 0)
        ELSE AppendToken(st, t)

Group_parse(st) ==
    LET t == st.tok
    IN  IF t.kind = "raised" THEN st
        ELSE IF t.type = "{" THEN Push(st, "Group", Top(st).depth + 1)
        ELSE IF t.type = "}" THEN Return(st)
        ELSE AppendToken(st, t)

\* a Substitution that keeps a '}' as a plain token
Substitution_parse_KeepsBrace(st) ==
    LET t == st.tok
    IN  IF t.kind = "raised" THEN st
        ELSE IF t.type = "]" THEN embed(st)
        ELSE IF t.type = "[" THEN Push(st, "Substitution", 0)
        ELSE IF t.type = "{" THEN Push(st, "Group", 1)
        ELSE IF t.type = "EOL"
           THEN Fatal(st, Msg("unexpected Substitution token", "Substitution", <<t.lineno>>))
        ELSE AppendToken(st, t)

Substitution_parse(st) ==
    LET t == st.tok
    IN  IF t.kind = "raised" THEN st
        ELSE IF t.type = "]" THEN embed(st)
        ELSE IF t.type = "[" THEN Push(st, "Substitution", 0)
        ELSE IF t.type = "{" THEN Push(st, "Group", 1)
        ELSE IF t.type \in {"EOL", "}"}
           THEN Fatal(st, Msg("unexpected Substitution token", "Substitution", <<t.lineno>>))
        ELSE AppendToken(st, t)

\* brace is set while the inner loop of the ${name} form runs
Variable_parse(st) ==
    LET t == st.tok
    IN  IF t.kind = "raised" THEN st
        ELSE IF Top(st).brace
           THEN IF t.type = "}" THEN Return(AppendToken(st, t)) ELSE AppendToken(st, t)
        ELSE IF t.type = "{"
           THEN IF Len(Top(st).tokens) = 0
                   THEN SetTop(AppendToken(st, t), [Top(AppendToken(st, t)) EXCEPT !.brace = TRUE])
                   ELSE Fatal(st, Msg("unexpected {", "Variable", <<t.lineno>>))
        ELSE IF t.type = "WORD" THEN Return(AppendToken(st, t))
        ELSE Fatal(st, Msg("unexpected token", "Variable", <<t.lineno>>))

(***************************************************************************)
(* The inputs of a run                                                     *)
(***************************************************************************)
Alphabet == {"a", SP, NL, BS, "{", "}", "[", "]", DQ, "$", "#", ";"}

\* the files of at most n characters
RECURSIVE TextsUpTo(_)
TextsUpTo(n) ==
    IF n = 0 THEN {<<>>}
    ELSE LET shorter == TextsUpTo(n - 1)
         IN  shorter \cup {Append(t, c) : t \in shorter, c \in Alphabet}

\* two proc commands, without their terminators
ProcF == <<"p", "r", "o", "c", SP, "f", SP, "{", "}", SP, "{", "}">>

ProcG == <<"p", "r", "o", "c", SP, "G", SP, "{", "}", SP, "{", "}">>

\* a proc command in a Substitution whose embedded re-parse fails at the '"'
ProcInSubstitution == <<"[">> \o ProcF \o <<";", DQ, "]">>

Fragments ==
    {ProcF, ProcG} \cup {<<c>> : c \in {NL, "[", "]", DQ, "$", "#"}}

\* the files made of at most n fragments
RECURSIVE FragmentsUpTo(_)
FragmentsUpTo(n) ==
    IF n = 0 THEN {<<>>}
    ELSE LET shorter == FragmentsUpTo(n - 1)
         IN  shorter \cup {t \o f : t \in shorter, f \in Fragments}

\* the files made of at most n fragments that nest Substitutions
NestedFragments ==
    {ProcF, ProcInSubstitution} \cup {<<c>> : c \in {NL, "[", "]", DQ, "$", "#"}}

RECURSIVE NestedUpTo(_)
NestedUpTo(n) ==
    IF n = 0 THEN {<<>>}
    ELSE LET shorter == NestedUpTo(n - 1)
         IN  shorter \cup {t \o f : t \in shorter, f \in NestedFragments}

\* the title of the k-th file of the run
TitleOf(k) == <<"f", DigitChars[k + 1], ".", "t", "c", "l">>

(***************************************************************************)
(* The actions                                                             *)
(***************************************************************************)
EmptyFile ==
    [name |-> <<>>, title |-> <<>>, data |-> <<>>, offsets |-> <<>>,
     escapes |-> <<>>, nlines |-> 0]

\* the debug levels that differ: opts.debug is tested as debug, debug > 1
\* and debug > 2
DebugLevels == {0, 1, 2, 3}

(***************************************************************************)
(* tops.sdss3.tcc.message: the pattern 'unsigned' as MessageTests uses it  *)
(***************************************************************************)
NonZeroDigits == {"1", "2", "3", "4", "5", "6", "7", "8", "9"}

Digits == {"0"} \cup NonZeroDigits

\* '$' at offset j of text: the end of the string, or just before a newline
\* that is its last character
AtEnd(text, j) ==
    \/ j = Len(text)
    \/ j = Len(text) - 1 /\ text[Len(text)] = NL

\* [0-9]* from offset j of text: the offset after the longest match
RECURSIVE DigitRun(_, _)
DigitRun(text, j) ==
    IF j < Len(text) /\ text[j + 1] \in Digits THEN DigitRun(text, j + 1) ELSE j

\* p = re.compile("%(unsigned)s$" % patterns), the pattern 0|[1-9][0-9]*$ ,
\* and m = p.match(text): the first alternative has no '$'; the second gives
\* back digits until '$' matches.  The result is m.end(), None for no match
unsigned_match(text) ==
    IF text # <<>> /\ text[1] = "0" THEN [end |-> 1]
    ELSE IF text # <<>> /\ text[1] \in NonZeroDigits
       THEN LET ends == {j \in 1..DigitRun(text, 1) : AtEnd(text, j)}
            IN  IF ends = {} THEN None
                ELSE [end |-> CHOOSE j \in ends : \A k \in ends : k <= j]
    ELSE None

\* a check that looks at m alone
check_AnyMatch(text) == unsigned_match(text) # None

\* MessageTests.check: matched = m and m.end() == len(text)
check(text) ==
    unsigned_match(text) # None /\ unsigned_match(text).end = Len(text)

(***************************************************************************)
(* tops.core.network.telnet: TelnetSession with the class attributes of    *)
(* LocalhostSession.  The debug prints of the session are left out.        *)
(***************************************************************************)
login_prompt == <<"l", "o", "g", "i", "n", ":", SP>>

password_prompt == <<"P", "a", "s", "s", "w", "o", "r", "d", ":">>

command_prompt == <<"~", SP, "%", SP>>

end_of_line == <<NL>>

\* the arguments of the constructor
username == <<"u">>

password == <<"p">>

\* TelnetSession.__init__.  command_response is not set before issue; sent is
\* what was written to the transport and done the number of calls of
\* self.done(self.command_response).  running and queue are the command that
\* the CommandQueue has issued (empty for none) and those that wait; failed
\* tells that the assertion of issue has failed
TelnetSession ==
    [state |-> "CONNECTING", sent |-> <<>>, running |-> <<>>,
     command_response |-> <<>>, done |-> 0, queue |-> <<>>, failed |-> FALSE]

\* str.endswith
endswith(str, end) ==
    /\ Len(str) >= Len(end)
    /\ SubSeq(str, Len(str) - Len(end) + 1, Len(str)) = end

\* str.split(sep) for a separator of one character
RECURSIVE split(_, _)
split(str, sep) ==
    IF \E i \in 1..Len(str) : str[i] = sep
       THEN LET i == CHOOSE i \in 1..Len(str) :
                        str[i] = sep /\ \A j \in 1..(i - 1) : str[j] # sep
            IN  <<SubSeq(str, 1, i - 1)>> \o split(SubSeq(str, i + 1, Len(str)), sep)
    ELSE <<str>>

\* TelnetSession.send: self.transport.write(data)
send(s, data) == [s EXCEPT !.sent = Append(@, data)]

\* TelnetSession.issue, called by the CommandQueue with the command that it
\* keeps in self.running: assert(self.state == 'COMMAND_LINE_READY') raises
\* AssertionError before anything is changed
issue(s, command) ==
    IF s.state # "COMMAND_LINE_READY" THEN [s EXCEPT !.failed = TRUE]
    ELSE send([s EXCEPT !.state = "COMMAND_LINE_BUSY",
                        !.command_response = <<>>],
              command \o end_of_line)

\* CommandQueue.add: a command is issued when none is running, and waits in
\* the queue otherwise
CommandQueue_add(s, command) ==
    IF s.running = <<>> THEN issue([s EXCEPT !.running = command], command)
    ELSE [s EXCEPT !.queue = Append(@, command)]

\* CommandQueue.done: the running command is finished and the first command
\* that waits is issued
CommandQueue_done(s) ==
    IF s.queue = <<>> THEN [s EXCEPT !.done = @ + 1, !.running = <<>>]
    ELSE issue([s EXCEPT !.done = @ + 1, !.running = Head(s.queue),
                         !.queue = Tail(s.queue)],
               Head(s.queue))

session_CONNECTING(s, data) ==
    IF endswith(data, login_prompt)
       THEN send([s EXCEPT !.state = "AUTHENTICATING"], username \o end_of_line)
    ELSE s

session_started(s) == [s EXCEPT !.state = "COMMAND_LINE_READY"]

session_login_failed(s) == [s EXCEPT !.state = "LOGIN_FAILED"]

session_AUTHENTICATING(s, data) ==
    IF endswith(data, password_prompt) THEN send(s, password \o end_of_line)
    ELSE IF endswith(data, login_prompt) THEN session_login_failed(s)
    ELSE IF endswith(data, command_prompt) THEN session_started(s)
    ELSE s

\* a LOGIN_FAILED state that starts the login handshake again
session_LOGIN_FAILED_Retry(s, data) ==
    IF endswith(data, login_prompt)
       THEN send([s EXCEPT !.state = "AUTHENTICATING"], username \o end_of_line)
    ELSE s

session_LOGIN_FAILED(s, data) == s

session_COMMAND_LINE_READY(s, data) == s

\* TelnetSession.split_data, for data that is not empty
split_data(s, data) ==
    LET all == split(data, NL)
        lines == IF all[Len(all)] = <<>> THEN SubSeq(all, 1, Len(all) - 1) ELSE all
        heard == IF Len(s.command_response) = 0 /\ lines[1] = s.running
                    THEN Tail(lines) ELSE lines
        completed == Len(heard) > 0 /\ endswith(heard[Len(heard)], command_prompt)
    IN  [completed |-> completed,
         lines |-> IF completed THEN SubSeq(heard, 1, Len(heard) - 1) ELSE heard]

session_COMMAND_LINE_BUSY(s, data) ==
    LET r == split_data(s, data)
        response == s.command_response \o r.lines
    IN  IF r.completed
           THEN CommandQueue_done([s EXCEPT !.command_response = response,
                                            !.state = "COMMAND_LINE_READY"])
        ELSE [s EXCEPT !.command_response = response]

\* getattr(self, "session_" + self.state)(data)
session_(s, data) ==
    CASE s.state = "CONNECTING" -> session_CONNECTING(s, data)
      [] s.state = "AUTHENTICATING" -> session_AUTHENTICATING(s, data)
      [] s.state = "LOGIN_FAILED" -> session_LOGIN_FAILED(s, data)
      [] s.state = "COMMAND_LINE_READY" -> session_COMMAND_LINE_READY(s, data)
      [] s.state = "COMMAND_LINE_BUSY" -> session_COMMAND_LINE_BUSY(s, data)

(***************************************************************************)
(* tops.core.network.logging.server: FeedBuffer.  A record is the message  *)
(* and the header that LogRecord is made of; the body of a status message  *)
(* is the number of messages that it reports, its elapsed time left out.   *)
(***************************************************************************)
\* the record that FeedBuffer.statusMessage builds
StatusRecord(f) ==
    [name |-> "logging.server", levelno |-> "DEBUG", body |-> f.msgCount]

\* an add that keeps every record
FeedBuffer_add_NoPop(f, record) ==
    [f EXCEPT !.buffer = Append(f.buffer, record), !.msgCount = @ + 1]

\* FeedBuffer.add
FeedBuffer_add(f, record) ==
    LET appended == Append(f.buffer, record)
    IN  [f EXCEPT !.buffer = IF Len(appended) > f.maxdepth THEN Tail(appended)
                             ELSE appended,
                  !.msgCount = @ + 1]

\* FeedBuffer.statusMessage
statusMessage(f) == FeedBuffer_add(f, StatusRecord(f))

\* FeedBuffer.__init__: LoopingCall(...).start(60.0) calls statusMessage at
\* once and then every 60 seconds
FeedBuffer(maxdepth) ==
    statusMessage([kind |-> "FeedBuffer", maxdepth |-> maxdepth, buffer |-> <<>>,
                   msgCount |-> 0])

\* main() before the first file, the option --debug among levels
Start(levels) ==
    /\ file = EmptyFile
    /\ last_line = 0
    /\ script = None
    /\ lexpos = 0
    /\ stack = <<>>
    /\ dictionary = [n \in {} |-> <<>>]
    /\ tag = [q \in {} |-> <<>>]
    /\ pc = "idle"
    /\ exc = None
    /\ returned = None
    /\ nfiles = 0
    /\ debug \in levels
    /\ parsed_files = <<>>
    /\ index = None
    /\ written = 0
    /\ doc = None
    /\ checked = None
    /\ session = TelnetSession
    /\ received = <<>>
    /\ asked = None
    /\ before_embed = <<>>
    /\ feed = None
    /\ added = <<>>
    /\ registry = [n \in {} |-> TelnetSession]
    /\ result = None

\* the default of the option --debug is 0
Init == Start({0})

\* the state as one pass of a parse() loop finds it
S0 ==
    [stack |-> stack, dictionary |-> dictionary, tag |-> tag, lexpos |-> lexpos,
     last_line |-> last_line, script |-> script, pc |-> pc, exc |-> None,
     returned |-> returned, tok |-> None, debug |-> debug]

\* the number of embedded scripts whose parse() is running
Embedding(stk) == Cardinality({k \in 1..Len(stk) : stk[k].name = "EmbeddedScript"})

Apply(st) ==
    /\ stack' = st.stack
    /\ dictionary' = st.dictionary
    /\ tag' = st.tag
    /\ lexpos' = st.lexpos
    /\ last_line' = st.last_line
    /\ script' = st.script
    /\ pc' = st.pc
    /\ exc' = st.exc
    /\ returned' = st.returned
    /\ before_embed' =
          IF Embedding(st.stack) > Embedding(stack)
             THEN Append(before_embed, [dictionary |-> dictionary, tag |-> tag])
             ELSE SubSeq(before_embed, 1, Embedding(st.stack))
    /\ UNCHANGED <<file, nfiles, debug, parsed_files, index, written, doc,
                   checked, session, received, asked,
                   feed, added, registry, result>>

\* File.parse up to the first read, for a File of the given offsets, with
\* the dictionary dict at debug level d: at debug > 1 the constructors of the
\* Script and of its first Command call f.lineno() with the lexer at 0
File_parse(offsets, dict, d) ==
    LET ln == lineno(offsets, 0, <<>>, 0)
        crash == d > 1 /\ ln.kind # "ok"
    IN  [stack |-> IF crash THEN <<Frame("Script", None, 0)>>
                            ELSE <<Frame("Script", None, 0), Frame("Command", None, 0)>>,
         dictionary |-> dict,
         tag |-> [q \in {} |-> <<>>],
         lexpos |-> 0,
         last_line |-> IF d > 1 /\ ~ crash THEN ln.last_line ELSE 0,
         script |-> None,
         pc |-> IF crash THEN "crashed" ELSE "parsing",
         exc |-> IF crash THEN [kind |-> ln.kind, msg |-> "", caught |-> "no"] ELSE None,
         returned |-> None,
         tok |-> None,
         debug |-> d]

\* a main() that goes on parsing files after it has begun to write
ParseFile_WhileWriting(texts, n) ==
    /\ pc \in {"idle", "output"}
    /\ nfiles < n
    /\ \E bytes \in texts :
          LET f == FileInit(bytes)
              st == File_parse(f.offsets, dictionary, debug)
          IN  /\ file' = [name |-> bytes, title |-> TitleOf(nfiles + 1), data |-> f.data,
                          offsets |-> f.offsets, escapes |-> f.escapes,
                          nlines |-> Len(f.offsets)]
              /\ last_line' = st.last_line
              /\ stack' = st.stack
              /\ pc' = st.pc
              /\ exc' = st.exc
              /\ script' = st.script
              /\ lexpos' = st.lexpos
              /\ tag' = st.tag
              /\ returned' = st.returned
    /\ nfiles' = nfiles + 1
    /\ UNCHANGED <<dictionary, debug, parsed_files, index, written, doc,
                   checked, session, received, asked, before_embed,
                   feed, added, registry, result>>

\* main(): f = File(name,title,...) and f.parse() up to the first read, for
\* the next file of a run of at most n files, its bytes among texts
ParseFile(texts, n) ==
    /\ pc = "idle"
    /\ nfiles < n
    /\ \E bytes \in texts :
          LET f == FileInit(bytes)
              st == File_parse(f.offsets, dictionary, debug)
          IN  /\ file' = [name |-> bytes, title |-> TitleOf(nfiles + 1), data |-> f.data,
                          offsets |-> f.offsets, escapes |-> f.escapes,
                          nlines |-> Len(f.offsets)]
              /\ last_line' = st.last_line
              /\ stack' = st.stack
              /\ pc' = st.pc
              /\ exc' = st.exc
              /\ script' = st.script
              /\ lexpos' = st.lexpos
              /\ tag' = st.tag
              /\ returned' = st.returned
    /\ nfiles' = nfiles + 1
    /\ UNCHANGED <<dictionary, debug, parsed_files, index, written, doc,
                   checked, session, received, asked, before_embed,
                   feed, added, registry, result>>

\* main(): parsed_files.append(f) after f.parse() returned, with or without
\* a script.  The File stays in parsed_files untouched until the export
FileDone ==
    /\ pc \in {"parsed", "fatal"}
    /\ file' = EmptyFile
    /\ last_line' = 0
    /\ script' = None
    /\ lexpos' = 0
    /\ stack' = <<>>
    /\ tag' = [q \in {} |-> <<>>]
    /\ pc' = "idle"
    /\ exc' = None
    /\ returned' = None
    /\ parsed_files' = Append(parsed_files,
            [title |-> file.title,
             script |-> pc = "parsed",
             tags |-> IF pc = "parsed" THEN {tag[q] : q \in DOMAIN tag} ELSE {}])
    /\ UNCHANGED <<dictionary, nfiles, debug, index, written, doc,
                   checked, session, received, asked, before_embed,
                   feed, added, registry, result>>

\* main(), lines 702-723, with the option --output: after the last file the
\* master index is built when several files were parsed
MasterIndex ==
    /\ pc = "idle"
    /\ pc' = "output"
    /\ index' = IF Len(parsed_files) > 1 THEN build_index(dictionary, <<>>) ELSE None
    /\ written' = 0
    /\ UNCHANGED <<file, last_line, script, lexpos, stack, dictionary, tag,
                   exc, returned, nfiles, debug, parsed_files, doc,
                   checked, session, received, asked, before_embed,
                   feed, added, registry, result>>

\* os.path.splitext(title)[0]: the title without the extension of its last
\* component
splitext(title) ==
    LET dots == {i \in 2..Len(title) :
                    /\ title[i] = "."
                    /\ title[i - 1] # "/"
                    /\ \A j \in i..Len(title) : title[j] # "/"}
    IN  IF dots = {} THEN title
        ELSE SubSeq(title, 1, (CHOOSE i \in dots : \A j \in dots : j <= i) - 1)

\* main(), lines 726-728: the page of a file, under the output directory
page(title) == splitext(title) \o <<".", "h", "t", "m", "l">>

\* main(), lines 725-737: one pass of the loop over parsed_files builds the
\* index of the file and writes its page
WriteFile ==
    /\ pc = "output"
    /\ written < Len(parsed_files)
    /\ index' = build_index(dictionary, parsed_files[written + 1].title)
    /\ written' = written + 1
    /\ UNCHANGED <<file, last_line, script, lexpos, stack, dictionary, tag,
                   pc, exc, returned, nfiles, debug, parsed_files, doc,
                   checked, session, received, asked, before_embed,
                   feed, added, registry, result>>

\* main() for a single file, lines 678 and 702-737 with the option --output:
\* the File is appended to parsed_files, no master index is written for one
\* file, and the loop builds the index of the file and exports its script,
\* if it has one
ExportFile ==
    /\ pc \in {"parsed", "fatal"}
    /\ parsed_files' = Append(parsed_files,
            [title |-> file.title,
             script |-> pc = "parsed",
             tags |-> IF pc = "parsed" THEN {tag[q] : q \in DOMAIN tag} ELSE {}])
    /\ index' = build_index(dictionary, file.title)
    /\ doc' = IF script # None THEN export(script, tag) ELSE None
    /\ written' = written + 1
    /\ pc' = "output"
    /\ UNCHANGED <<file, last_line, script, lexpos, stack, dictionary, tag,
                   exc, returned, nfiles, debug,
                   checked, session, received, asked, before_embed,
                   feed, added, registry, result>>

Running(name) == pc = "parsing" /\ stack[Len(stack)].name = name

CommandStep == Running("Command") /\ Apply(Command_parse(next(S0, FALSE)))

CommentStep == Running("Comment") /\ Apply(Comment_parse(next(S0, TRUE)))

QuotedStep == Running("Quoted") /\ Apply(Quoted_parse(next(S0, TRUE)))

GroupStep == Running("Group") /\ Apply(Group_parse(next(S0, TRUE)))

SubstitutionStep == Running("Substitution") /\ Apply(Substitution_parse(next(S0, TRUE)))

VariableStep == Running("Variable") /\ Apply(Variable_parse(next(S0, TRUE)))

ParseStep ==
    \/ CommandStep
    \/ CommentStep
    \/ QuotedStep
    \/ GroupStep
    \/ SubstitutionStep
    \/ VariableStep

\* main() over a source tree: a run over files made of fragments
Next ==
    \/ ParseFile(FragmentsUpTo(MaxFrags), MaxFiles)
    \/ ParseStep
    \/ FileDone
    \/ MasterIndex
    \/ WriteFile

Spec == Init /\ [][Next]_vars

\* main() over a source tree whose files nest Substitutions
NextNested ==
    \/ ParseFile(NestedUpTo(MaxFrags), MaxFiles)
    \/ ParseStep
    \/ FileDone
    \/ MasterIndex
    \/ WriteFile

SpecNested == Init /\ [][NextNested]_vars

\* main() over a single source file, made of fragments, with --output
NextExport == ParseFile(FragmentsUpTo(MaxFrags), 1) \/ ParseStep \/ ExportFile

SpecExport == Init /\ [][NextExport]_vars

\* main() over a single source file, made of characters
NextText == ParseFile(TextsUpTo(MaxLen), 1) \/ ParseStep \/ FileDone

SpecText == Init /\ [][NextText]_vars

\* main() over a single source file made of brackets, so that Substitutions
\* are re-parsed inside Substitutions
DeepFragments ==
    {<<"[", "[">>, <<"]", "]">>}
        \cup {<<c>> : c \in {"[", "]", "{", "}", "a", "$", "#", NL, DQ}}

RECURSIVE DeepUpTo(_)
DeepUpTo(n) ==
    IF n = 0 THEN {<<>>}
    ELSE LET shorter == DeepUpTo(n - 1)
         IN  shorter \cup {t \o f : t \in shorter, f \in DeepFragments}

NextDeep == ParseFile(DeepUpTo(MaxFrags), 1) \/ ParseStep \/ FileDone

SpecDeep == Init /\ [][NextDeep]_vars

\* a Variable in a Substitution that, re-parsed, leaves a '[' in front of a
\* '}' or of an EOL that a Group held when the file was read
HiddenBrace == <<"$", "{", "{", "}", "[", "}">>

HiddenEOL == <<"$", "{", "{", "}", "[", NL, "}">>

HiddenFragments ==
    {HiddenBrace, HiddenEOL} \cup {<<c>> : c \in {NL, "[", "]", "}", DQ, "#"}}

\* the files made of at most n of these fragments
RECURSIVE HiddenUpTo(_)
HiddenUpTo(n) ==
    IF n = 0 THEN {<<>>}
    ELSE LET shorter == HiddenUpTo(n - 1)
         IN  shorter \cup {t \o f : t \in shorter, f \in HiddenFragments}

\* main() over a single source file whose Substitutions are re-parsed
NextHidden == ParseFile(HiddenUpTo(MaxFrags), 1) \/ ParseStep \/ FileDone

SpecHidden == Init /\ [][NextHidden]_vars

\* a proc command with its end of line, for a procedure of the given name
ProcLine(proc_name) ==
    <<"p", "r", "o", "c", SP>> \o proc_name \o <<SP, "{", "}", SP, "{", "}", NL>>

\* two lines that use the other constructs
OtherLines == <<DQ, "$", "a", "[", "]", DQ, NL, "#", NL>>

\* procedures f and f_2, the second named like the tag of a duplicate
TagLines == {ProcLine(<<"f">>), ProcLine(<<"f", "_", "2">>), OtherLines}

\* the files made of at most n of these lines
RECURSIVE TagLinesUpTo(_)
TagLinesUpTo(n) ==
    IF n = 0 THEN {<<>>}
    ELSE LET shorter == TagLinesUpTo(n - 1)
         IN  shorter \cup {t \o f : t \in shorter, f \in TagLines}

\* main() over a source tree whose files define procedures f and f_2
NextTags == ParseFile(TagLinesUpTo(MaxFrags), MaxFiles) \/ ParseStep \/ FileDone

SpecTags == Init /\ [][NextTags]_vars

\* main() over a single source file at any debug level
InitDebug == Start(DebugLevels)

SpecDebug == InitDebug /\ [][NextText]_vars

(***************************************************************************)
(* The lexer alone: File.__init__, lexer.input(data) and the calls         *)
(* lexer.token() up to the end of the data                                 *)
(***************************************************************************)
LexAlphabet == Alphabet \cup {TAB}

\* the files of at most n characters, tabs included
RECURSIVE LexTextsUpTo(_)
LexTextsUpTo(n) ==
    IF n = 0 THEN {<<>>}
    ELSE LET shorter == LexTextsUpTo(n - 1)
         IN  shorter \cup {Append(t, c) : t \in shorter, c \in LexAlphabet}

\* f = File(name,...) and self.lexer.input(self.data)
lexer_input ==
    /\ pc = "idle"
    /\ nfiles < 1
    /\ \E bytes \in LexTextsUpTo(MaxLen) :
          LET f == FileInit(bytes)
          IN  file' = [name |-> bytes, title |-> TitleOf(1), data |-> f.data,
                       offsets |-> f.offsets, escapes |-> f.escapes,
                       nlines |-> Len(f.offsets)]
    /\ lexpos' = 0
    /\ returned' = None
    /\ pc' = "lexing"
    /\ nfiles' = 1
    /\ UNCHANGED <<last_line, script, stack, dictionary, tag, exc, debug,
                   parsed_files, index, written, doc,
                   checked, session, received, asked, before_embed,
                   feed, added, registry, result>>

\* token = self.lexer.token(): the next token, None at the end of the data,
\* or the FatalParseError of t_error
lexer_token ==
    /\ pc = "lexing"
    /\ LET t == token(file.data, lexpos)
       IN  IF t = None
              THEN pc' = "lexed" /\ UNCHANGED <<returned, lexpos, exc>>
           ELSE IF t.kind = "FatalParseError"
              THEN /\ pc' = "fatal"
                   /\ exc' = [kind |-> "FatalParseError", msg |-> Msg(t.msg, "", <<2>>),
                              caught |-> "no"]
                   /\ UNCHANGED <<returned, lexpos>>
           ELSE /\ returned' = t
                /\ lexpos' = lexpos + Len(t.value)
                /\ UNCHANGED <<pc, exc>>
    /\ UNCHANGED <<file, last_line, script, stack, dictionary, tag, nfiles, debug,
                   parsed_files, index, written, doc,
                   checked, session, received, asked, before_embed,
                   feed, added, registry, result>>

NextLex == lexer_input \/ lexer_token

SpecLex == Init /\ [][NextLex]_vars

(***************************************************************************)
(* File.lineno asked for offsets of a file in any order                    *)
(***************************************************************************)
LinesAlphabet == {"a", BS, NL}

RECURSIVE LinesUpTo(_)
LinesUpTo(n) ==
    IF n = 0 THEN {<<>>}
    ELSE LET shorter == LinesUpTo(n - 1)
         IN  shorter \cup {Append(t, c) : t \in shorter, c \in LinesAlphabet}

\* f = File(name,...)
File ==
    /\ pc = "idle"
    /\ nfiles < 1
    /\ \E bytes \in LinesUpTo(MaxLen) :
          LET f == FileInit(bytes)
          IN  file' = [name |-> bytes, title |-> TitleOf(1), data |-> f.data,
                       offsets |-> f.offsets, escapes |-> f.escapes,
                       nlines |-> Len(f.offsets)]
    /\ last_line' = 0
    /\ lexpos' = 0
    /\ pc' = "opened"
    /\ nfiles' = 1
    /\ UNCHANGED <<script, stack, dictionary, tag, exc, returned, debug,
                   parsed_files, index, written, doc, checked, session, received,
                   asked, before_embed,
                   feed, added, registry, result>>

\* f.lineno(offset) for an offset from 1 on inside the file
File_lineno ==
    /\ pc = "opened"
    /\ \E offset \in 1..(Len(file.data) - 1) :
          LET ln == lineno(file.offsets, last_line, <<offset>>, lexpos)
          IN  IF ln.kind # "ok"
                 THEN /\ pc' = "crashed"
                      /\ exc' = [kind |-> ln.kind, msg |-> "", caught |-> "no"]
                      /\ UNCHANGED <<last_line, asked>>
              ELSE /\ last_line' = ln.last_line
                   /\ asked' = [offset |-> offset, line |-> ln.line,
                                before |-> IF asked = None THEN <<>>
                                           ELSE <<asked.offset, asked.line>>]
                   /\ UNCHANGED <<pc, exc>>
    /\ UNCHANGED <<file, script, lexpos, stack, dictionary, tag, returned, nfiles,
                   debug, parsed_files, index, written, doc, checked, session,
                   received, before_embed,
                   feed, added, registry, result>>

NextLines == File \/ File_lineno

SpecLines == Init /\ [][NextLines]_vars

(***************************************************************************)
(* MessageTests: the tests of the pattern 'unsigned'                       *)
(***************************************************************************)
MessageAlphabet == {"0", "1", "9", "-", "a", NL}

RECURSIVE MessageTextsUpTo(_)
MessageTextsUpTo(n) ==
    IF n = 0 THEN {<<>>}
    ELSE LET shorter == MessageTextsUpTo(n - 1)
         IN  shorter \cup {Append(t, c) : t \in shorter, c \in MessageAlphabet}

tclparseVars == <<file, last_line, script, lexpos, stack, dictionary, tag,
                  pc, exc, returned, nfiles, debug, parsed_files, index, written, doc,
                  asked, before_embed,
                   feed, added, registry, result>>

\* self.check(p,text,...) with p the pattern unsigned
MessageTests_check ==
    /\ \E text \in MessageTextsUpTo(MaxText) :
          checked' = [text |-> text, matched |-> check(text)]
    /\ UNCHANGED <<tclparseVars, session, received>>

NextMessage == MessageTests_check

SpecMessage == Init /\ [][NextMessage]_vars

(***************************************************************************)
(* A TelnetSession that receives data and is given commands                *)
(***************************************************************************)
Pieces == {login_prompt, password_prompt, command_prompt, <<"c">>, <<NL>>}

\* what the host sends at once: at most n pieces
RECURSIVE DataUpTo(_)
DataUpTo(n) ==
    IF n = 1 THEN Pieces
    ELSE LET shorter == DataUpTo(n - 1)
         IN  shorter \cup {d \o q : d \in shorter, q \in Pieces}

Commands == {<<"c">>}

\* TelnetSession.dataReceived
dataReceived ==
    /\ \E data \in DataUpTo(MaxPieces) :
          LET s == session_(session, data)
          IN  /\ Len(s.sent) <= MaxSent
              /\ Len(s.command_response) <= MaxLines
              /\ session' = s
              /\ received' = data
    /\ UNCHANGED <<tclparseVars, checked>>

\* TelnetSession.do(name, command) for the name of the session:
\* session.add(command)
TelnetSession_do ==
    /\ \E command \in Commands :
          LET s == CommandQueue_add(session, command)
          IN  /\ Len(s.sent) <= MaxSent
              /\ Len(s.queue) <= MaxQueued
              /\ session' = s
    /\ UNCHANGED <<tclparseVars, checked, received>>

NextTelnet == dataReceived \/ TelnetSession_do

SpecTelnet == Init /\ [][NextTelnet]_vars

(***************************************************************************)
(* A FeedBuffer that receives the messages of clients and its own status   *)
(* messages                                                                *)
(***************************************************************************)
Bodies == {"a", "b"}

feedVars == <<file, last_line, script, lexpos, stack, dictionary, tag,
              pc, exc, returned, nfiles, debug, parsed_files, index, written, doc,
              checked, session, received, asked, before_embed, registry, result>>

\* feed = FeedBuffer(maxdepth); added is every record given to add so far
FeedBuffer_init ==
    /\ feed = None
    /\ \E maxdepth \in 0..MaxDepth :
          /\ feed' = FeedBuffer(maxdepth)
          /\ added' = <<StatusRecord([msgCount |-> 0])>>
    /\ UNCHANGED feedVars

\* LogServer.handleMessage: self.factory.feed.add(record)
handleMessage ==
    /\ feed # None
    /\ feed.msgCount < MaxAdds
    /\ \E body \in Bodies :
          LET record == [name |-> "client", levelno |-> "INFO", body |-> body]
          IN  /\ feed' = FeedBuffer_add(feed, record)
              /\ added' = Append(added, record)
    /\ UNCHANGED feedVars

\* the LoopingCall of the FeedBuffer fires
LoopingCall ==
    /\ feed # None
    /\ feed.msgCount < MaxAdds
    /\ feed' = statusMessage(feed)
    /\ added' = Append(added, StatusRecord(feed))
    /\ UNCHANGED feedVars

NextFeed == FeedBuffer_init \/ handleMessage \/ LoopingCall

SpecFeed == Init /\ [][NextFeed]_vars

(***************************************************************************)
(* TelnetSessions constructed and used by their names                      *)
(***************************************************************************)
SessionNames == {"tcc", "localhost"}

registryVars == <<file, last_line, script, lexpos, stack, dictionary, tag,
                  pc, exc, returned, nfiles, debug, parsed_files, index, written,
                  doc, checked, session, received, asked, before_embed, feed, added>>

\* a constructor that registers the new session under a name that is taken
TelnetSession_init_Replaces ==
    /\ \E myname \in SessionNames :
          /\ registry' = [n \in DOMAIN registry \cup {myname} |->
                             IF n = myname THEN TelnetSession ELSE registry[n]]
          /\ result' = [kind |-> "TelnetSession", name |-> myname]
    /\ UNCHANGED registryVars

\* TelnetSession(myname,username,password): result is the new session or the
\* exception raised
TelnetSession_init ==
    /\ \E myname \in SessionNames :
          IF myname \in DOMAIN registry
             THEN /\ result' = [kind |-> "TelnetException", name |-> myname]
                  /\ UNCHANGED registry
          ELSE /\ registry' = [n \in DOMAIN registry \cup {myname} |->
                                  IF n = myname THEN TelnetSession ELSE registry[n]]
               /\ result' = [kind |-> "TelnetSession", name |-> myname]
    /\ UNCHANGED registryVars

\* TelnetSession.do(session_name,command_payload): result is the deferred of
\* session.add or the failure returned
do ==
    /\ \E session_name \in SessionNames, command_payload \in Commands :
          IF session_name \notin DOMAIN registry
             THEN /\ result' = [kind |-> "Failure", name |-> session_name]
                  /\ UNCHANGED registry
          ELSE LET s == CommandQueue_add(registry[session_name], command_payload)
               IN  /\ Len(s.sent) <= MaxSent
                   /\ Len(s.queue) <= MaxQueued
                   /\ registry' = [registry EXCEPT ![session_name] = s]
                   /\ result' = [kind |-> "Deferred", name |-> session_name]
    /\ UNCHANGED registryVars

\* dataReceived of a session that was constructed, for the data that the
\* host sends in one piece
session_dataReceived ==
    /\ \E name \in DOMAIN registry, data \in Pieces :
          LET s == session_(registry[name], data)
          IN  /\ Len(s.sent) <= MaxSent
              /\ Len(s.command_response) <= MaxLines
              /\ registry' = [registry EXCEPT ![name] = s]
    /\ result' = None
    /\ UNCHANGED registryVars

NextRegistry == TelnetSession_init \/ do \/ session_dataReceived

SpecRegistry == Init /\ [][NextRegistry]_vars

(***************************************************************************)
(* Properties                                                              *)
(***************************************************************************)
IsPrefix(a, b) == Len(a) <= Len(b) /\ SubSeq(b, 1, Len(a)) = a

Last(q) == q[Len(q)]

\* the 1-based number of the line of text that holds offset off
LineOf(text, off) == 1 + Cardinality({i \in 1..off : text[i] = NL})

\* the number of tokens of type ty among the children toks
Count(toks, ty) ==
    Cardinality({k \in 1..Len(toks) : isLexToken(toks[k]) /\ toks[k].type = ty})

\* the type of the token the next read of the innermost instance returns
Peek ==
    LET i == Tokenizer(stack, Len(stack))
    IN  IF i = 0
           THEN (IF lexpos >= Len(file.data) THEN "EOF" ELSE token(file.data, lexpos).type)
        ELSE IF stack[i].index < Len(stack[i].source)
           THEN stack[i].source[stack[i].index + 1].type
        ELSE "EOF"

RaisedFatal(e) == e # None /\ e.kind = "FatalParseError"

\* C1: whenever File.parse returns a Script, its reconstruct() is the
\* sequence of bytes of the file, escaped newlines included.
C1_RoundTrip == pc = "parsed" => reconstruct(script) = file.name

\* C2: the value of every token File.next_token returns is the bytes of the
\* file from the token's lexpos over the length of the lexer's token.
C2_TokenValue ==
    returned # None =>
        returned.value = Slice(file.name, returned.lexpos,
                               returned.lexpos + Len(token(file.data, returned.lexpos).value))

\* C3: File.parse ends with a Script or with a FatalParseError it reports; no
\* other exception leaves it, so the run of main() is never cut short.
C3_NoOtherException == pc # "crashed"

\* C4: a step that records a proc name appends the title of the file being
\* parsed as the k-th title of the name, k one more than the titles recorded
\* before, and tags the name token with the name (k = 1) or name_k (k >= 2).
C4_IndexAccumulation ==
    [][\A n \in DOMAIN dictionary' :
          LET old == IF n \in DOMAIN dictionary THEN dictionary[n] ELSE <<>>
              k == Len(old) + 1
          IN  dictionary'[n] # old =>
                /\ dictionary'[n] = Append(old, file.title)
                /\ \E q \in DOMAIN tag' :
                      /\ tag'[q] = IF k = 1 THEN n ELSE n \o <<"_">> \o Decimal(k)
                      /\ q \notin DOMAIN tag \/ tag[q] # tag'[q]
                      /\ token(file.data, q).type = "WORD"
                      /\ Restore(file.escapes, 1, q, token(file.data, q).value) = n]_vars

\* a name defined in both files of a run, its second definition tagged name_2
C4_Witness ==
    \E n \in DOMAIN dictionary :
        /\ dictionary[n] = <<TitleOf(1), TitleOf(2)>>
        /\ \E q \in DOMAIN tag : tag[q] = n \o <<"_", "2">>

\* C5: the dictionary is append-only: every step keeps every name, and the
\* titles a name had are a prefix of the titles it has afterwards.
C5_AppendOnly ==
    [][\A n \in DOMAIN dictionary :
          n \in DOMAIN dictionary' /\ IsPrefix(dictionary[n], dictionary'[n])]_vars

\* the second file of a run ended in a fatal error after it extended the
\* titles of a name of the first file, another name being recorded as well
C5_Witness ==
    /\ pc = "fatal"
    /\ nfiles = 2
    /\ Cardinality(DOMAIN dictionary) = 2
    /\ \E n \in DOMAIN dictionary : dictionary[n] = <<TitleOf(1), TitleOf(2)>>

\* C6: a step in which Parser.embed swallows a fatal error returns the
\* Substitution with the children it had when embed was called, appended to
\* its parent; the parse goes on with the lexer where it was and the
\* enclosing instances as they were.
C6_FailedEmbedKeepsChildren ==
    [][(RaisedFatal(exc') /\ exc'.caught = "embed") =>
          LET i == Tokenizer(stack, Len(stack))
          IN  /\ i >= 3
              /\ pc' = "parsing"
              /\ lexpos' = lexpos
              /\ Len(stack') = i - 2
              /\ SubSeq(stack', 1, i - 3) = SubSeq(stack, 1, i - 3)
              /\ Len(stack'[i - 2].tokens) = Len(stack[i - 2].tokens) + 1
              /\ SubSeq(stack'[i - 2].tokens, 1, Len(stack[i - 2].tokens)) = stack[i - 2].tokens
              /\ Last(stack'[i - 2].tokens).name = "Substitution"
              /\ Last(stack'[i - 2].tokens).tokens = stack[i - 1].tokens]_vars

\* embed has just swallowed an error and the Substitution kept its children
C6_Witness ==
    /\ RaisedFatal(exc)
    /\ exc.caught = "embed"
    /\ LET kid == Last(stack[Len(stack)].tokens)
       IN  /\ kid.name = "Substitution"
           /\ Len(kid.tokens) > 0
           /\ isLexToken(kid.tokens[1])

\* the values of a list of tokens, concatenated
RECURSIVE Values(_)
Values(toks) == IF toks = <<>> THEN <<>> ELSE Head(toks).value \o Values(Tail(toks))

\* C7: a step in which an EmbeddedScript is completed leaves the Substitution
\* with exactly one child, that EmbeddedScript, whose text is the text of all
\* the replayed tokens, and the Substitution reconstructs to what its
\* children reconstructed to before.
C7_EmbedReplacesChildren ==
    [][LET i == Tokenizer(stack, Len(stack))
       IN  (pc = "parsing" /\ i > 0 /\ exc' = None /\ Len(stack') < i) =>
              LET kid == Last(stack'[i - 2].tokens)
              IN  /\ Len(stack') = i - 2
                  /\ kid.name = "Substitution"
                  /\ Len(kid.tokens) = 1
                  /\ kid.tokens[1].name = "EmbeddedScript"
                  /\ reconstruct(kid.tokens[1]) = Values(stack[i].source)
                  /\ reconstruct(kid)
                       = <<"[">> \o reconstructAll(stack[i - 1].tokens) \o <<"]">>]_vars

\* a Substitution whose children became an EmbeddedScript of a Command
C7_Witness ==
    /\ pc = "parsing"
    /\ Len(stack[Len(stack)].tokens) > 0
    /\ LET kid == Last(stack[Len(stack)].tokens)
       IN  /\ isParser(kid)
           /\ kid.name = "Substitution"
           /\ kid.tokens[1].kind = "node"
           /\ kid.tokens[1].name = "EmbeddedScript"
           /\ Len(kid.tokens[1].tokens) = 1
           /\ Len(kid.tokens[1].tokens[1].tokens) > 0

\* C8: every instance that returned took one closing token for each opening
\* token: its captured prefix and suffix tokens are the delimiters of its
\* class, and a Variable holds as many '{' as '}' tokens.
C8_DelimiterBalance ==
    /\ exc # None => exc.kind # "AssertionError"
    /\ \A i \in 1..Len(stack) : \A k \in 1..Len(stack[i].tokens) :
          LET kid == stack[i].tokens[k]
          IN  (isParser(kid) /\ kid.name # "EmbeddedScript") =>
                /\ prefix(kid.name) # "" => kid.prefix_token.value = <<prefix(kid.name)>>
                /\ suffix(kid.name) # "" => kid.suffix_token.value = <<suffix(kid.name)>>
                /\ kid.name = "Variable" => Count(kid.tokens, "{") = Count(kid.tokens, "}")

C10_TokenLine ==
    returned # None => returned.lineno = LineOf(file.name, returned.lexpos)

\* one pass of the parse() loop of the instance on top of the stack
Step(st) ==
    LET name == Top(st).name
    IN  CASE name = "Command" -> Command_parse(next(st, FALSE))
          [] name = "Comment" -> Comment_parse(next(st, TRUE))
          [] name = "Quoted" -> Quoted_parse(next(st, TRUE))
          [] name = "Group" -> Group_parse(next(st, TRUE))
          [] name = "Substitution" -> Substitution_parse(next(st, TRUE))
          [] name = "Variable" -> Variable_parse(next(st, TRUE))

\* File.parse from st to its end
RECURSIVE Finish(_)
Finish(st) ==
    IF st.pc # "parsing" THEN st
    ELSE Finish(Step([st EXCEPT !.exc = None, !.tok = None]))

\* what File.parse leaves: the script or the error, the index and the tags
Outcome(st) ==
    [pc |-> st.pc, script |-> st.script, exc |-> st.exc,
     dictionary |-> st.dictionary, tag |-> st.tag]

\* C11: when File.parse of the single file of a run has ended at whatever
\* debug level, its outcome (script or error, dictionary, tags) is the
\* outcome of File.parse of the same file at debug level 0.
C11_DebugIndependent ==
    pc \in {"parsed", "fatal", "crashed"} =>
        Outcome([S0 EXCEPT !.exc = exc])
            = Outcome(Finish(File_parse(file.offsets, [n \in {} |-> <<>>], 0)))

\* C12: a fatal error leaves the file without a script, and when every
\* earlier file of the run ended in a fatal error the file being parsed ends
\* with the script and the tags that File.parse gives it as the only file.
C12_FailedFileIsolated ==
    /\ pc = "fatal" => script = None
    /\ (pc \in {"parsed", "fatal"} /\ parsed_files # <<>>
           /\ \A k \in 1..Len(parsed_files) : ~ parsed_files[k].script) =>
          LET alone == Finish(File_parse(file.offsets, [n \in {} |-> <<>>], debug))
          IN  /\ script = alone.script
              /\ tag = alone.tag

\* the children of a Command that are not white space, ';' or a Comment
Significant(toks) ==
    SelectSeq(toks, LAMBDA t : /\ ~ (t.kind = "tok" /\ t.type \in {"WS", "EOL", ";"})
                               /\ ~ (t.kind = "node" /\ t.name = "Comment"))

\* cmd is a proc command of four words with a literal name
IsProcDefinition(cmd) ==
    LET w == Significant(cmd.tokens)
    IN  /\ Len(w) = 4
        /\ w[1].kind = "tok" /\ w[1].type = "WORD" /\ w[1].value = <<"p", "r", "o", "c">>
        /\ w[2].kind = "tok" /\ w[2].type = "WORD"

\* the step ends a Command, which the Script at place j of the stack appends
CommandEnded(j) ==
    /\ j < Len(stack)
    /\ Len(stack') = j + 1
    /\ stack[j].name \in {"Script", "EmbeddedScript"}
    /\ stack'[j].name = stack[j].name
    /\ Len(stack'[j].tokens) = Len(stack[j].tokens) + 1

LinksOf(n) == SelectSeq(index.items, LAMBDA it : it.kind = "A" /\ it.proc = n)

\* C14: an index built for a title holds links for a name exactly when the
\* title is among the titles recorded for the name (for every name when no
\* title is given), and then one link for each recorded title, in the
\* order recorded, whatever the title asked for.
C14_IndexFilter ==
    index # None =>
        \A n \in DOMAIN dictionary :
            IF index.title = <<>>
                  \/ \E k \in 1..Len(dictionary[n]) : dictionary[n][k] = index.title
               THEN /\ Len(LinksOf(n)) = Len(dictionary[n])
                    /\ \A k \in 1..Len(dictionary[n]) :
                          /\ LinksOf(n)[k].k = k - 1
                          /\ IsPrefix(replace(dictionary[n][k]) \o <<"#">>, LinksOf(n)[k].href)
               ELSE LinksOf(n) = <<>>

\* the index of the second file lists a name defined in both files, with a
\* link to the first file, and leaves out a name of the first file
C14_Witness ==
    /\ index # None
    /\ index.title = TitleOf(2)
    /\ \E n \in DOMAIN dictionary :
          /\ dictionary[n] = <<TitleOf(1), TitleOf(2)>>
          /\ Len(LinksOf(n)) = 2
    /\ \E m \in DOMAIN dictionary :
          /\ dictionary[m] = <<TitleOf(1)>>
          /\ LinksOf(m) = <<>>

\* the names of the index, in the order of their first links
ListedNames ==
    LET firsts == SelectSeq(index.items, LAMBDA it : it.kind = "A" /\ it.k = 0)
    IN  [i \in 1..Len(firsts) |-> firsts[i].proc]

\* C15: in every index built after the files of a run were parsed, the k-th
\* link of a name points to the page of the k-th title recorded for the
\* name, at the anchor name (k = 1) or name_k (k >= 2), and when the file of
\* that title has a script a token of the script carries that anchor as its
\* tag; the names follow each other in case-insensitive alphabetical order.
C15_LinksMatchTags ==
    index # None =>
        /\ \A i \in 1..Len(index.items) :
              LET it == index.items[i]
              IN  it.kind = "A" =>
                    LET title == dictionary[it.proc][it.k + 1]
                        anchor == IF it.k = 0 THEN it.proc
                                  ELSE it.proc \o <<"_">> \o Decimal(it.k + 1)
                    IN  /\ it.href = page(title) \o <<"#">> \o anchor
                        /\ \A f \in 1..Len(parsed_files) :
                              (parsed_files[f].title = title /\ parsed_files[f].script)
                                 => anchor \in parsed_files[f].tags
        /\ \A i \in 1..Len(ListedNames) : \A j \in (i + 1)..Len(ListedNames) :
              ~ StrLess(lowered(ListedNames[j]), lowered(ListedNames[i]))

\* the texts of an exported element and of a list of them, in order
RECURSIVE TextOf(_)
RECURSIVE TextOfAll(_)
TextOf(e) == IF e.kind = "text" THEN e.value ELSE TextOfAll(e.children)

TextOfAll(es) == IF es = <<>> THEN <<>> ELSE TextOf(Head(es)) \o TextOfAll(Tail(es))

\* the nodes of a tree with their kinds, and the Spans of an exported
\* element that are not tagged texts, with their class names
RECURSIVE NodeShape(_)
NodeShape(node) ==
    LET kids == SelectSeq(node.tokens, isParser)
    IN  [name |-> node.name, kids |-> [i \in 1..Len(kids) |-> NodeShape(kids[i])]]

RECURSIVE SpanShape(_)
SpanShape(e) ==
    LET kids == SelectSeq(e.children,
                          LAMBDA c : c.kind = "Span" /\ c.className # "tagged")
    IN  [name |-> e.className, kids |-> [i \in 1..Len(kids) |-> SpanShape(kids[i])]]

\* the tagged tokens of a tree and the tagged Spans of an exported element,
\* in order, as pairs of text and tag
RECURSIVE TaggedTokens(_)
TaggedTokens(toks) ==
    IF toks = <<>> THEN <<>>
    ELSE (IF isParser(Head(toks)) THEN TaggedTokens(Head(toks).tokens)
          ELSE IF Head(toks).lexpos \in DOMAIN tag
             THEN <<<<Head(toks).value, tag[Head(toks).lexpos]>>>>
          ELSE <<>>)
         \o TaggedTokens(Tail(toks))

RECURSIVE TaggedSpans(_)
TaggedSpans(es) ==
    IF es = <<>> THEN <<>>
    ELSE (IF Head(es).kind = "text" THEN <<>>
          ELSE IF Head(es).className = "tagged"
             THEN <<<<TextOf(Head(es)), Head(es).id>>>>
          ELSE TaggedSpans(Head(es).children))
         \o TaggedSpans(Tail(es))

\* C16: the content exported for a script has, read in order, the text that
\* reconstruct() gives for the script; its Spans other than tagged texts are
\* the nodes of the script, nested alike and named by their kinds; and its
\* tagged Spans are the tagged tokens of the script, each with its tag as id.
C16_ExportMirrorsReconstruct ==
    doc # None =>
        /\ TextOf(doc) = reconstruct(script)
        /\ SpanShape(doc) = NodeShape(script)
        /\ TaggedSpans(<<doc>>) = TaggedTokens(script.tokens)

\* a script with a proc definition and a nested node was exported
C16_Witness ==
    /\ doc # None
    /\ TaggedSpans(<<doc>>) # <<>>
    /\ \E i \in 1..Len(script.tokens) : \E j \in 1..Len(script.tokens[i].tokens) :
          /\ isParser(script.tokens[i].tokens[j])
          /\ suffix(script.tokens[i].tokens[j].name) # ""


\* C17: every fatal error raised during a parse names the construct being
\* parsed and carries the 1-based number of a line of the source.
C17_FatalNamesConstructAndLine ==
    (exc # None /\ exc.kind = "FatalParseError") =>
        /\ exc.msg.name # ""
        /\ exc.msg.line # <<>>
        /\ exc.msg.line[1] \in 1..Len(file.offsets)


\* the character at offset q of s follows a backslash that escapes it: the
\* backslash is not escaped itself and the character is not a newline
RECURSIVE Escaped(_, _)
Escaped(s, q) ==
    /\ q > 0
    /\ s[q + 1] # NL
    /\ s[q] = BS
    /\ ~ Escaped(s, q - 1)

Reserved == {"{", "}", "#", "$", DQ, "[", "]", ";"}

Blank == {SP, TAB}

\* what the claim says of a token t of the text s
Classified(s, t) ==
    LET p == t.lexpos
        e == t.lexpos + Len(t.value)
    IN  /\ t.type = "EOL" <=> s[p + 1] = NL
        /\ t.type = "EOL" =>
              /\ \A q \in p..(e - 1) : s[q + 1] \in Blank \cup {NL}
              /\ e < Len(s) => s[e + 1] \notin Blank \cup {NL}
        /\ t.type = "WS" <=> (s[p + 1] \in Blank /\ ~ Escaped(s, p))
        /\ t.type = "WS" =>
              /\ \A q \in p..(e - 1) : s[q + 1] \in Blank
              /\ e < Len(s) => s[e + 1] \notin Blank
              /\ p > 0 => (s[p] \notin Blank \cup {NL} \/ Escaped(s, p - 1))
        /\ \A q \in p..(e - 1) :
              /\ (s[q + 1] = BS /\ ~ Escaped(s, q) /\ q + 1 < Len(s) /\ s[q + 2] # NL)
                    => (t.type = "WORD" /\ q + 1 < e)
              /\ (s[q + 1] \in Reserved /\ ~ Escaped(s, q))
                    => (t.type = s[q + 1] /\ e = p + 1)

\* C18: the lexer splits the normalized text into contiguous tokens that
\* cover it, without a lexical error: a newline with the newlines, spaces and
\* tabs that follow it is one EOL token; any other maximal run of spaces and
\* tabs is one WS token; a backslash and the non-newline character it
\* escapes lie inside one WORD token; every other reserved character is a
\* literal token of its own.
C18_LexerPartitions ==
    [][pc = "lexing" =>
          /\ pc' # "fatal"
          /\ pc' = "lexed" => lexpos = Len(file.data)
          /\ returned' # returned =>
                /\ returned'.lexpos = lexpos
                /\ returned'.value # <<>>
                /\ returned'.value = Slice(file.data, lexpos, lexpos')
                /\ lexpos' = lexpos + Len(returned'.value)
                /\ Classified(file.data, returned')]_vars

\* the lexer reached the end of a text with an escaped reserved character
\* and a newline followed by a blank
C18_Witness ==
    /\ pc = "lexed"
    /\ \E q \in 1..(Len(file.data) - 1) :
          file.data[q + 1] \in Reserved /\ Escaped(file.data, q)
    /\ \E q \in 0..(Len(file.data) - 2) :
          file.data[q + 1] = NL /\ file.data[q + 2] \in Blank


\* C19: the pattern unsigned, matched against a whole string, accepts the
\* string 0 and the non-empty strings of decimal digits that do not start
\* with 0, and nothing else.
C19_UnsignedAccepts ==
    checked # None =>
        (checked.matched <=>
            \/ checked.text = <<"0">>
            \/ /\ checked.text # <<>>
               /\ \A i \in 1..Len(checked.text) : checked.text[i] \in Digits
               /\ checked.text[1] # "0")

\* a text with a leading zero was checked and rejected
C19_Witness ==
    /\ checked # None
    /\ Len(checked.text) > 1
    /\ checked.text[1] = "0"
    /\ \A i \in 1..Len(checked.text) : checked.text[i] \in Digits
    /\ ~ checked.matched

\* C20: a TelnetSession enters LOGIN_FAILED from AUTHENTICATING, on data that
\* ends with the login prompt; data with that end received in AUTHENTICATING
\* leads there; and in LOGIN_FAILED no data changes the state or is answered.
\* A step that leaves the queue of the session as it is receives data.
C20_LoginFailedTerminal ==
    [][/\ (session.state # "LOGIN_FAILED" /\ session'.state = "LOGIN_FAILED") =>
             (session.state = "AUTHENTICATING" /\ endswith(received', login_prompt))
       /\ (/\ session.state = "AUTHENTICATING"
           /\ endswith(received', login_prompt)
           /\ session'.running = session.running
           /\ session'.queue = session.queue
           /\ session'.failed = session.failed) =>
             session'.state = "LOGIN_FAILED"
       /\ session.state = "LOGIN_FAILED" =>
             (session'.state = "LOGIN_FAILED" /\ session'.sent = session.sent)]_vars

\* a session in LOGIN_FAILED has since received a login prompt, which would
\* start the login in the state CONNECTING
C20_Witness ==
    /\ session.state = "LOGIN_FAILED"
    /\ received = login_prompt \o login_prompt
    /\ session.sent = <<username \o end_of_line, password \o end_of_line>>

\* the number of commands written to the connection
Issued(s) ==
    Cardinality({i \in 1..Len(s.sent) :
                    \E command \in Commands : s.sent[i] = command \o end_of_line})

\* C21: whatever the order of do() calls and received data, the assertion of
\* issue never fails; issue leaves the session in COMMAND_LINE_BUSY; a command
\* is done only in COMMAND_LINE_BUSY on data that ends with the command
\* prompt; and at most one command is outstanding, exactly when the session is
\* in COMMAND_LINE_BUSY.
C21_IssueOnlyWhenReady ==
    [][/\ ~ session'.failed
       /\ Issued(session') > Issued(session) => session'.state = "COMMAND_LINE_BUSY"
       /\ session'.done > session.done =>
             (session.state = "COMMAND_LINE_BUSY" /\ endswith(received', command_prompt))
       /\ Issued(session') - session'.done \in {0, 1}
       /\ Issued(session') - session'.done = 1 <=> session'.state = "COMMAND_LINE_BUSY"]_vars


\* the elements of a sequence
Range(seq) == {seq[i] : i \in 1..Len(seq)}

\* C22: the normalized text is as long as the file; it differs from the file
\* only at the offsets e and e+1 of the recorded escapes e, where the file
\* has backslash, newline and the text two spaces; and the escapes recorded
\* are the offsets of the backslash of every line that ends with backslash,
\* newline, in order.
C22_NormalizationKeepsOffsets ==
    LET bytes == file.name
        ends == {e \in 0..(Len(bytes) - 2) : bytes[e + 1] = BS /\ bytes[e + 2] = NL}
    IN  /\ Len(file.data) = Len(bytes)
        /\ \A q \in 0..(Len(bytes) - 1) :
              file.data[q + 1] # bytes[q + 1] =>
                  \E e \in Range(file.escapes) : q \in {e, e + 1}
        /\ \A e \in Range(file.escapes) :
              file.data[e + 1] = SP /\ file.data[e + 2] = SP
        /\ Range(file.escapes) = ends
        /\ \A i \in 1..(Len(file.escapes) - 1) : file.escapes[i] < file.escapes[i + 1]

\* a file with an escaped newline after a backslash that is a character of
\* its own, and another line
C22_Witness ==
    /\ Len(file.escapes) = 1
    /\ file.escapes[1] > 0
    /\ file.name[file.escapes[1]] = BS
    /\ Len(file.offsets) = 2


\* C23: at most one recorded escape lies inside the range of a token that the
\* lexer returns, and the two spaces that stand for it lie inside that token.
C23_OneEscapePerToken ==
    (pc = "lexing" /\ returned # None) =>
        LET inside == {e \in Range(file.escapes) :
                          /\ returned.lexpos <= e
                          /\ e < returned.lexpos + Len(returned.value)}
        IN  /\ Cardinality(inside) <= 1
            /\ \A e \in inside : e + 1 < returned.lexpos + Len(returned.value)


\* C24: a call of File.lineno with an offset from 1 on inside the file gives
\* what a scan from the first line gives, the 1-based line of the offset,
\* whatever calls came before; after a call with a smaller or equal offset
\* the result is not smaller; and last_line stays within 0..nlines-1.
C24_LinenoHistoryIndependent ==
    (pc = "opened" /\ asked # None) =>
        /\ asked.line = ScanLines(file.offsets, asked.offset, 0)
        /\ asked.line = LineOf(file.name, asked.offset)
        /\ (asked.before # <<>> /\ asked.before[1] <= asked.offset) =>
               asked.before[2] <= asked.line
        /\ 0 <= last_line
        /\ last_line < file.nlines

\* a call for an earlier line, not the first, after a call for a later line
C24_Witness ==
    /\ pc = "opened"
    /\ asked # None
    /\ asked.before # <<>>
    /\ asked.before[2] > asked.line
    /\ asked.line > 1

\* the nodes of a tree: the node itself and the nodes under it
RECURSIVE Subtrees(_)
Subtrees(node) ==
    {node} \cup UNION {Subtrees(node.tokens[k]) :
                          k \in {j \in 1..Len(node.tokens) : isParser(node.tokens[j])}}

\* the offset in the data of the File at which a token of it ends
EndOf(tok) == tok.lexpos + Len(token(file.data, tok.lexpos).value)

\* the tokens follow each other in the source without a gap
Contiguous(toks) ==
    \A k \in 1..(Len(toks) - 1) : toks[k + 1].lexpos = EndOf(toks[k])

\* C25: for every node of a parsed tree, the nodes whose children became an
\* embedded Script included, token_stream() returns the tokens consumed
\* between the node's prefix and suffix, in source order and without a gap:
\* they start right after the prefix token and end right before the suffix
\* token, and those of the Script are all the tokens of the file.
C25_TokenStreamIsConsumedTokens ==
    pc = "parsed" =>
        \A node \in Subtrees(script) :
            LET ts == token_stream(node.tokens)
            IN  /\ ts.ok
                /\ Contiguous(ts.stream)
                /\ \A k \in 1..Len(ts.stream) : isLexToken(ts.stream[k])
                /\ Values(ts.stream) = reconstructAll(node.tokens)
                /\ ("prefix_token" \in DOMAIN node /\ node.prefix_token # None
                        /\ ts.stream # <<>>)
                      => ts.stream[1].lexpos = node.prefix_token.lexpos + 1
                /\ ("suffix_token" \in DOMAIN node /\ node.suffix_token # None
                        /\ ts.stream # <<>>)
                      => node.suffix_token.lexpos = EndOf(Last(ts.stream))
                /\ (node.name = "Script" /\ ts.stream # <<>>)
                      => /\ ts.stream[1].lexpos = 0
                         /\ EndOf(Last(ts.stream)) = Len(file.data)

\* the tokens of a tree in the order they hold them: of each node the
\* captured prefix token, the tokens of its children, the captured suffix
\* token
RECURSIVE TreeTokens(_)
TreeTokens(toks) ==
    IF toks = <<>> THEN <<>>
    ELSE LET x == Head(toks)
         IN  (IF isLexToken(x) THEN <<x>>
              ELSE (IF "prefix_token" \in DOMAIN x /\ x.prefix_token # None
                       THEN <<x.prefix_token>> ELSE <<>>)
                   \o TreeTokens(x.tokens)
                   \o (IF "suffix_token" \in DOMAIN x /\ x.suffix_token # None
                          THEN <<x.suffix_token>> ELSE <<>>))
             \o TreeTokens(Tail(toks))

\* the tokens held by the instances lo..hi of the stack, outermost first
RECURSIVE Held(_, _, _)
Held(stk, lo, hi) ==
    IF lo > hi THEN <<>>
    ELSE (IF stk[lo].ptok # None THEN <<stk[lo].ptok>> ELSE <<>>)
         \o TreeTokens(stk[lo].tokens)
         \o Held(stk, lo + 1, hi)

\* the tokens that the lexer cuts from the data between p and the offset end
RECURSIVE LexedBefore(_, _, _)
LexedBefore(data, p, end) ==
    IF p >= end THEN <<>>
    ELSE LET t == token(data, p)
         IN  IF t = None \/ t.kind # "tok" THEN <<>>
             ELSE <<t>> \o LexedBefore(data, p + Len(t.value), end)

\* where each token of a list starts, and its type
Places(toks) == [k \in 1..Len(toks) |-> <<toks[k].lexpos, toks[k].type>>]

\* the places in the stack of the EmbeddedScripts, and 0 for the File
Tokenizers == {0} \cup {k \in 1..Len(stack) : stack[k].name = "EmbeddedScript"}

\* the place of the first EmbeddedScript above k, or the end of the stack
NextTokenizer(k) ==
    IF \E j \in Tokenizers : j > k
       THEN CHOOSE j \in Tokenizers : j > k /\ \A i \in Tokenizers : i > k => j <= i
       ELSE Len(stack) + 1

\* the tokens that the instances reading from the tokenizer k have taken:
\* those they hold and the ']' of the Substitution that is being embedded
Taken(k) ==
    LET n == NextTokenizer(k)
    IN  Held(stack, IF k = 0 THEN 1 ELSE k, n - 1)
        \o (IF n <= Len(stack) THEN <<stack[n - 1].last_token>> ELSE <<>>)

\* the tokens that the tokenizer k has given
Given(k) ==
    IF k = 0 THEN LexedBefore(file.data, 0, lexpos)
    ELSE SubSeq(stack[k].source, 1, stack[k].index)

\* C26: while a file is parsed the tokens that the instances took from a
\* tokenizer are, in order and each once, the tokens that it has given so
\* far, so that an instance that has returned left the stream right after its
\* last token; and the tree of a parsed file holds each token of the file
\* once, in source order, as a child or as a captured prefix or suffix.
C26_ConstructionContract ==
    /\ pc = "parsing" => \A k \in Tokenizers : Places(Taken(k)) = Places(Given(k))
    /\ pc = "parsed" =>
          /\ lexpos = Len(file.data)
          /\ Places(TreeTokens(<<script>>))
               = Places(LexedBefore(file.data, 0, Len(file.data)))

\* a parsed file in which a token follows a node that has a suffix
C26_Witness ==
    /\ pc = "parsed"
    /\ \E node \in Subtrees(script) : \E k \in 1..(Len(node.tokens) - 1) :
          /\ isParser(node.tokens[k])
          /\ "suffix_token" \in DOMAIN node.tokens[k]
          /\ node.tokens[k].suffix_token # None
          /\ isLexToken(node.tokens[k + 1])

\* the token that the instance on top of the stack is about to read
Ahead(end_is_fatal) == next(S0, end_is_fatal).tok

\* C27: a '#' read by a Command starts a Comment exactly when all the
\* children the Command holds are WS or EOL tokens; otherwise the '#' becomes
\* a plain token child, no error is raised and the Command goes on reading.
C27_CommentOnlyAfterWhiteSpace ==
    [][(Running("Command") /\ Ahead(FALSE).kind = "tok" /\ Ahead(FALSE).type = "#") =>
          LET cmd == stack[Len(stack)]
              blank == \A k \in 1..Len(cmd.tokens) :
                          /\ cmd.tokens[k].kind = "tok"
                          /\ cmd.tokens[k].type \in {"WS", "EOL"}
          IN  /\ pc' = "parsing"
              /\ exc' = None
              /\ blank <=> (/\ Len(stack') = Len(stack) + 1
                            /\ stack'[Len(stack')].name = "Comment"
                            /\ stack'[Len(stack')].ptok.lexpos = Ahead(FALSE).lexpos
                            /\ stack'[Len(stack)].tokens = cmd.tokens)
              /\ ~ blank <=> (/\ Len(stack') = Len(stack)
                              /\ stack'[Len(stack')].name = "Command"
                              /\ stack'[Len(stack')].tokens
                                   = Append(cmd.tokens, Ahead(FALSE)))]_vars

\* a parsed Command that kept a '#' after a word and ended at its EOL
C27_Witness ==
    /\ pc = "parsed"
    /\ \E i \in 1..Len(script.tokens) :
          LET toks == script.tokens[i].tokens
          IN  /\ Len(toks) = 3
              /\ toks[1].kind = "tok" /\ toks[1].type = "WORD"
              /\ toks[2].kind = "tok" /\ toks[2].type = "#"
              /\ toks[3].kind = "tok" /\ toks[3].type = "EOL"

\* what ends a Command: an EOL token, a ';' token or a Comment
IsTerminator(x) ==
    \/ isLexToken(x) /\ x.type \in {"EOL", ";"}
    \/ isParser(x) /\ x.name = "Comment"

\* the nodes that the instances in progress and the parsed script hold
HeldNodes ==
    UNION {UNION {Subtrees(stack[k].tokens[j]) :
                     j \in {i \in 1..Len(stack[k].tokens) : isParser(stack[k].tokens[i])}} :
              k \in 1..Len(stack)}
    \cup (IF script # None THEN Subtrees(script) ELSE {})

\* the Commands of a Script are not empty, hold a terminator only as their
\* last child, and only the last of them may lack one, when exhausted is true
WellEnded(body, exhausted) ==
    \A k \in 1..Len(body) :
        LET c == body[k].tokens
        IN  /\ body[k].name = "Command"
            /\ Len(c) > 0
            /\ \A j \in 1..(Len(c) - 1) : ~ IsTerminator(c[j])
            /\ ~ IsTerminator(c[Len(c)]) => (k = Len(body) /\ exhausted)

\* the Command on top of the stack has ended with the given children: it
\* is the last Command of its Script, which starts to read another
Ended(tokens, n) ==
    /\ pc' = "parsing"
    /\ Len(stack') = n
    /\ stack'[n].name = "Command"
    /\ stack'[n].tokens = <<>>
    /\ stack'[n - 1].name = stack[n - 1].name
    /\ Len(stack'[n - 1].tokens) = Len(stack[n - 1].tokens) + 1
    /\ SubSeq(stack'[n - 1].tokens, 1, Len(stack[n - 1].tokens)) = stack[n - 1].tokens
    /\ Last(stack'[n - 1].tokens).name = "Command"
    /\ Last(stack'[n - 1].tokens).tokens = tokens

\* C28: a Command ends when it reads an EOL or ';' token or when its Comment
\* returns, and that token or Comment is its last child; at the end of the
\* stream a Command that has children ends and stays the last Command of its
\* Script, and one without children is not added and the Script ends.  So the
\* Commands of every Script are not empty and hold a terminator only as last
\* child, and only the last Command of an exhausted stream has none.
C28_CommandEnds ==
    [][LET n == Len(stack)
       IN  /\ Running("Command") =>
                LET cmd == stack[n]
                    t == Ahead(FALSE)
                IN  /\ (t.kind = "tok" /\ t.type \in {"EOL", ";"})
                          => Ended(Append(cmd.tokens, t), n)
                    /\ (t.kind = "tok" /\ t.type \notin {"EOL", ";", "}", "]"})
                          => /\ Len(stack') >= n
                             /\ stack'[n].name = "Command"
                             /\ stack'[n - 1].tokens = stack[n - 1].tokens
                    /\ (t.kind = "EndOfTokens" /\ cmd.tokens # <<>>)
                          => Ended(cmd.tokens, n)
                    /\ (t.kind = "EndOfTokens" /\ cmd.tokens = <<>> /\ n = 2)
                          => /\ pc' = "parsed"
                             /\ script'.name = "Script"
                             /\ script'.tokens = stack[1].tokens
                    /\ (t.kind = "EndOfTokens" /\ cmd.tokens = <<>> /\ n > 2)
                          => /\ pc' = "parsing"
                             /\ Len(stack') = n - 3
                             /\ Last(stack'[n - 3].tokens).name = "Substitution"
                             /\ Last(stack'[n - 3].tokens).tokens
                                  = <<[kind |-> "node", name |-> "EmbeddedScript",
                                       tokens |-> stack[n - 1].tokens]>>
           /\ (Running("Comment") /\ Ahead(TRUE).kind = "tok" /\ Ahead(TRUE).type = "EOL")
                 => /\ Ended(Append(stack[n - 1].tokens, Last(Last(stack'[n - 2].tokens).tokens)),
                             n - 1)
                    /\ Last(Last(stack'[n - 2].tokens).tokens).name = "Comment"
                    /\ Last(Last(stack'[n - 2].tokens).tokens).tokens
                         = Append(stack[n].tokens, Ahead(TRUE))
           /\ \A k \in 1..Len(stack') :
                 stack'[k].name \in {"Script", "EmbeddedScript"} =>
                     WellEnded(stack'[k].tokens,
                               IF stack'[k].name = "Script"
                                  THEN lexpos' = Len(file'.data)
                                  ELSE stack'[k].index = Len(stack'[k].source))
           /\ \A node \in HeldNodes' :
                 node.name \in {"Script", "EmbeddedScript"} => WellEnded(node.tokens, TRUE)
           /\ (pc' = "parsed" /\ file'.data # <<>>) => script'.tokens # <<>>]_vars

\* a parsed script of two Commands whose last line has no end: the first
\* ended at its ';' and the second at the end of the stream
C28_Witness ==
    /\ pc = "parsed"
    /\ Len(script.tokens) = 2
    /\ Last(script.tokens[1].tokens).kind = "tok"
    /\ Last(script.tokens[1].tokens).type = ";"
    /\ Last(script.tokens[2].tokens).kind = "tok"
    /\ Last(script.tokens[2].tokens).type = "WORD"

\* the Groups that have returned and those in progress, with their depths
\* and children
Groups ==
    {[depth |-> g.depth, tokens |-> g.tokens] : g \in {x \in HeldNodes : x.name = "Group"}}
    \cup {[depth |-> stack[k].depth, tokens |-> stack[k].tokens] :
             k \in {i \in 1..Len(stack) : stack[i].name = "Group"}}

\* C29: the children of a Group are plain tokens, none of them a '{' or a
\* '}', and Groups one level deeper, whatever tokens the Group read; a Group
\* that has returned is closed by the '}' that follows its last child, and
\* the instance that a Group in progress has started is a Group one level
\* deeper.
C29_GroupOpaque ==
    /\ \A g \in Groups : \A k \in 1..Len(g.tokens) :
          LET x == g.tokens[k]
          IN  \/ isLexToken(x) /\ x.type \notin {"{", "}"}
              \/ isParser(x) /\ x.name = "Group" /\ x.depth = g.depth + 1
    /\ \A g \in HeldNodes : g.name = "Group" =>
          /\ g.prefix_token.type = "{"
          /\ g.suffix_token.type = "}"
          /\ Contiguous(TreeTokens(<<g>>))
    /\ \A k \in 1..(Len(stack) - 1) : stack[k].name = "Group" =>
          /\ stack[k + 1].name = "Group"
          /\ stack[k + 1].depth = stack[k].depth + 1

\* a parsed Group that holds a '$' token followed by a word
C29_Witness ==
    /\ pc = "parsed"
    /\ \E g \in Subtrees(script) :
          /\ g.name = "Group"
          /\ Len(g.tokens) = 2
          /\ isLexToken(g.tokens[1]) /\ g.tokens[1].type = "$"
          /\ isLexToken(g.tokens[2]) /\ g.tokens[2].type = "WORD"

\* an EmbeddedScript is in the stack after the step that was not before it
Embeds ==
    \E k \in 1..Len(stack') :
        /\ stack'[k].name = "EmbeddedScript"
        /\ k > Len(stack) \/ stack[k].name # "EmbeddedScript"

\* C30: a Substitution that reads an EOL or a '}' token raises a fatal
\* error, which ends the parse of the file or, in an embedded script, the
\* re-parse; and an embedded re-parse starts only in the step in which a
\* Substitution reads its closing ']', over the children it holds then.
C30_SubstitutionFatalTokens ==
    [][LET n == Len(stack)
       IN  /\ (Running("Substitution") /\ Ahead(TRUE).kind = "tok"
                  /\ Ahead(TRUE).type \in {"EOL", "}"})
                 => /\ RaisedFatal(exc')
                    /\ ~ Embeds
                    /\ IF Tokenizer(stack, n) = 0
                          THEN pc' = "fatal" /\ exc'.caught = "parse"
                          ELSE /\ exc'.caught = "embed"
                               /\ Len(stack') = Tokenizer(stack, n) - 2
           /\ Embeds
                 => /\ Running("Substitution")
                    /\ Ahead(TRUE).kind = "tok"
                    /\ Ahead(TRUE).type = "]"
                    /\ Len(stack') = n + 2
                    /\ stack'[n].tokens = stack[n].tokens
                    /\ stack'[n].last_token.type = "]"
                    /\ stack'[n + 1].name = "EmbeddedScript"
                    /\ Places(stack'[n + 1].source) = Places(TreeTokens(stack[n].tokens))
                    /\ stack'[n + 1].index = 0]_vars

\* a Substitution of an embedded script read a '}' or an EOL that a Group
\* held when the file was read, and the re-parse was given up
C30_Witness ==
    /\ pc = "parsing"
    /\ RaisedFatal(exc)
    /\ exc.caught = "embed"
    /\ exc.msg.what = "unexpected Substitution token"

\* the types of the children of a node, Parser instances named by their class
Types(toks) == [k \in 1..Len(toks) |-> IF isLexToken(toks[k]) THEN toks[k].type ELSE toks[k].name]

\* C31: a Variable that has returned holds exactly one WORD token, or a '{',
\* one WORD and the closing '}'; a Variable that reads, right after its '$',
\* a token that is neither a WORD nor a '{', or the end of the stream, raises
\* a fatal error.
C31_VariableForms ==
    [][/\ \A v \in HeldNodes' : v.name = "Variable" =>
             Types(v.tokens) \in {<<"WORD">>, <<"{", "WORD", "}">>}
       /\ (Running("Variable") /\ stack[Len(stack)].tokens = <<>>
              /\ \/ Ahead(TRUE).kind # "tok"
                 \/ Ahead(TRUE).type \notin {"WORD", "{"})
             => RaisedFatal(exc')]_vars

\* C32: Command.build_index is called, for the master index and for the
\* index of each file, only when File.parse has returned for every file of
\* the run and every File is in parsed_files; from the first call on no file
\* is parsed and the dictionary does not change.
C32_IndexAfterAllParses ==
    [][/\ (index' # index \/ written' # written \/ (pc' = "output" /\ pc # "output"))
             => /\ pc \in {"idle", "output"}
                /\ pc' = "output"
                /\ stack = <<>>
                /\ Len(parsed_files) = nfiles
                /\ parsed_files' = parsed_files
                /\ dictionary' = dictionary
       /\ pc = "output"
             => /\ pc' = "output"
                /\ nfiles' = nfiles
                /\ dictionary' = dictionary
                /\ stack' = <<>>]_vars

\* the index of the second of two files was built, a proc being defined
C32_Witness ==
    /\ pc = "output"
    /\ written = 2
    /\ Len(parsed_files) = 2
    /\ index # None
    /\ DOMAIN dictionary # {}

\* the places of the tokenizers in the stack, the File first
TokenizerList(stk) ==
    <<0>> \o SelectSeq([k \in 1..Len(stk) |-> k], LAMBDA k : stk[k].name = "EmbeddedScript")

\* the number of tokens that the tokenizer at place i has still to give
Remaining(stk, pos, i) ==
    IF i = 0 THEN Len(LexedBefore(file.data, pos, Len(file.data)))
    ELSE Len(stk[i].source) - stk[i].index

\* what is left of a parse: for each tokenizer, outermost first, 2 more than
\* the tokens it has still to give, then 1 if the instance on top of the
\* stack holds children (a Command that has still to end) and 0 if not
Rank(stk, pos) ==
    LET ts == TokenizerList(stk)
    IN  [k \in 1..Len(ts) |-> Remaining(stk, pos, ts[k]) + 2]
        \o <<IF stk[Len(stk)].tokens # <<>> THEN 1 ELSE 0>>

\* a comes before b in the order of the dictionary
LexLess(a, b) ==
    \E p \in 1..Len(a) :
        /\ p <= Len(b)
        /\ \A q \in 1..(p - 1) : a[q] = b[q]
        /\ a[p] < b[p]

\* C33: every pass of the loop of a parse() takes one token from its stream
\* or finds the stream at its end; the stream that an embedded re-parse
\* replays is shorter, by the two delimiters at least, than the stream its
\* Substitution was read from; so what is left of the parse gets smaller at
\* every pass, in a well-founded order, until File.parse has its result.
C33_ParseTerminates ==
    [][pc = "parsing" =>
          LET n == Len(stack)
              i == Tokenizer(stack, n)
          IN  /\ Ahead(TRUE).kind = "tok" =>
                    /\ Remaining(stack, lexpos, i) > 0
                    /\ IF i = 0 THEN lexpos' = lexpos + Len(token(file.data, lexpos).value)
                                ELSE /\ lexpos' = lexpos
                                     /\ i <= Len(stack') =>
                                           /\ stack'[i].name = "EmbeddedScript"
                                           /\ stack'[i].index = stack[i].index + 1
              /\ Ahead(TRUE).kind # "tok" =>
                    /\ Remaining(stack, lexpos, i) = 0
                    /\ lexpos' = lexpos
              /\ Embeds =>
                    /\ Len(stack'[n + 1].source) = Len(TreeTokens(stack[n].tokens))
                    /\ Len(stack'[n + 1].source) + 2
                         <= Len(LexedBefore(file.data, 0, Len(file.data)))
                    /\ i > 0 => Len(stack'[n + 1].source) + 2 <= Len(stack[i].source)
              /\ pc' \in {"parsing", "parsed", "fatal", "crashed"}
              /\ pc' = "parsing" => LexLess(Rank(stack', lexpos'), Rank(stack, lexpos))
              /\ Len(TokenizerList(stack)) <= Len(file.data) + 1]_vars

\* an embedded re-parse is running inside another one
C33_Witness ==
    /\ pc = "parsing"
    /\ Len(TokenizerList(stack)) = 3
    /\ stack[Tokenizer(stack, Len(stack))].index > 0

\* C34: no two name tokens of the files parsed so far carry the same tag:
\* the tags of the tokens of the file being parsed differ from each other
\* and from the tags of the files parsed before.
C34_TagsUnique ==
    /\ \A p \in DOMAIN tag : \A q \in DOMAIN tag : p # q => tag[p] # tag[q]
    /\ \A q \in DOMAIN tag : \A k \in 1..Len(parsed_files) : tag[q] \notin parsed_files[k].tags
    /\ \A j \in 1..Len(parsed_files) : \A k \in 1..Len(parsed_files) :
          j # k => parsed_files[j].tags \cap parsed_files[k].tags = {}

\* C35: in a step in which Parser.embed swallows a fatal error, the
\* dictionary and the tags of the tokens are left as they were when that
\* embed was called.
C35_FailedEmbedNoSideEffects ==
    [][(RaisedFatal(exc') /\ exc'.caught = "embed") =>
          LET was == before_embed[Len(before_embed)]
          IN  /\ dictionary' = was.dictionary
              /\ tag' = was.tag]_vars

\* the number of definitions that a dictionary records for a title
RECURSIVE EntriesOf(_, _)
EntriesOf(dict, title) ==
    IF DOMAIN dict = {} THEN 0
    ELSE LET n == CHOOSE m \in DOMAIN dict : TRUE
         IN  Len(SelectSeq(dict[n], LAMBDA t : t = title))
             + EntriesOf([m \in DOMAIN dict \ {n} |-> dict[m]], title)

\* C36: while a file is parsed a name token that has a tag keeps it, and the
\* dictionary holds one entry of the file for each tagged name token,
\* however often an embedded re-parse replays the tokens of a proc command.
C36_RegisteredOnce ==
    [][pc = "parsing" =>
          /\ \A q \in DOMAIN tag : q \in DOMAIN tag' /\ tag'[q] = tag[q]
          /\ EntriesOf(dictionary', file.title) = Cardinality(DOMAIN tag')]_vars

\* C37: a file whose parse ended in a fatal error has no entry in the
\* dictionary, when File.parse returns and in the rest of the run, so every
\* title that the dictionary records is that of a file with a script.
C37_FailedFileNoEntries ==
    /\ pc = "fatal" => EntriesOf(dictionary, file.title) = 0
    /\ \A k \in 1..Len(parsed_files) :
          ~ parsed_files[k].script => EntriesOf(dictionary, parsed_files[k].title) = 0

\* what the host can send after a command was issued: a response that ends
\* with the command prompt
Responses == {d \in DataUpTo(MaxPieces) : endswith(d, command_prompt)}

\* the session after the two chunks of data split after its k-th character
InTwoChunks(s, data, k) ==
    session_(session_(s, SubSeq(data, 1, k)), SubSeq(data, k + 1, Len(data)))

\* C38: when a command was issued and the host answers with a response that
\* ends with the command prompt, the session that receives the response in
\* two chunks, however it is split, is the session that receives it at
\* once: back to COMMAND_LINE_READY, done() called with the same lines.
C38_ChunkingIrrelevant ==
    (session.state = "COMMAND_LINE_BUSY" /\ session.command_response = <<>>) =>
        \A data \in Responses : \A k \in 1..(Len(data) - 1) :
            LET whole == session_(session, data)
                parts == InTwoChunks(session, data, k)
            IN  /\ parts.state = whole.state
                /\ parts.done = whole.done
                /\ parts.command_response = whole.command_response

\* the last n elements of a sequence
LastN(seq, n) == SubSeq(seq, Len(seq) - n + 1, Len(seq))

Min(a, b) == IF a < b THEN a ELSE b

\* C39: after any calls of add, those of the status messages included, the
\* buffer holds at most maxdepth records, they are the most recent
\* min(n, maxdepth) of the n records added, in the order of their arrival,
\* and msgCount is n.
C39_FeedBufferRecent ==
    feed # None =>
        /\ Len(feed.buffer) <= feed.maxdepth
        /\ feed.buffer = LastN(added, Min(Len(added), feed.maxdepth))
        /\ feed.msgCount = Len(added)

\* records were dropped from a buffer that holds a later status message
\* and a message of a client
C39_Witness ==
    /\ feed # None
    /\ feed.maxdepth > 1
    /\ Len(added) > feed.maxdepth + 1
    /\ \E i \in 1..Len(feed.buffer) :
          feed.buffer[i].name = "logging.server" /\ feed.buffer[i].body > 0
    /\ \E i \in 1..Len(feed.buffer) : feed.buffer[i].name = "client"

====
